---------------------------- MODULE Spec2Model ----------------------------
(***************************************************************************)
(* Leave Optimization Engine of the Vacation Maximiser (public/app.js).    *)
(*                                                                         *)
(* Dates.  A Date object is modelled by its day number: the number of days *)
(* since 1 January of BaseYear.  The modelled year is a window of the real *)
(* year: its first days of January followed by 25..31 December (DecDays    *)
(* days), YearLen days in a common year and YearLen + 1 in a leap year.    *)
(* YearLen is congruent to 365 modulo 7, so that weekdays advance from     *)
(* year to year as in the real calendar.  An ISO date string YYYY-MM-DD is *)
(* modelled by the tuple <<year, month, day>>.                             *)
(***************************************************************************)
EXTENDS Integers, Sequences, FiniteSets, TLC

(* ----------------------------- bounds --------------------------------- *)

\* Days of a modelled common year (January part plus 25..31 December).
YearLen == 15

\* Number of selectable years, starting at BaseYear + 1.
NumYears == 2

\* Largest allowance of a direct call of the engine.
MaxAllowance == 4

\* The allowance of a fresh page (let currentAllowance = 25), in the scale of
\* the modelled year.
DefaultAllowance == 2

(* ------------------------- calendar arithmetic ------------------------ *)

\* Day number 0 is 1 January of this year, a Sunday.
BaseYear == 2023

\* 25..31 December: the last days of every modelled year.
DecDays == 31 - 24

\* new Date(year, 1, 29).getMonth() === 1
IsLeap(year) == (year % 4 = 0 /\ year % 100 # 0) \/ year % 400 = 0

DaysInYear(year) == IF IsLeap(year) THEN YearLen + 1 ELSE YearLen

\* Years a date of the model can lie in.
YearRange == (BaseYear - 2)..(BaseYear + NumYears + 3)

\* The element of a one-element set.  Only({F(r) : r \in {first}}) is the
\* statement sequence "const r = first; return F(r)": first is evaluated
\* once, before F is.
Only(S) == CHOOSE x \in S : TRUE

\* Leap years before the year.
LeapYearsBefore(year) == (year - 1) \div 4 - (year - 1) \div 100 + (year - 1) \div 400

\* new Date(year, 0, 1) as a day number.
YearStart(year) ==
    (year - BaseYear) * YearLen + LeapYearsBefore(year) - LeapYearsBefore(BaseYear)

\* date.getFullYear()
getFullYear(date) ==
    CHOOSE year \in YearRange : YearStart(year) <= date /\ date < YearStart(year + 1)

\* date.getDay(): 0 = Sunday .. 6 = Saturday.
getDay(date) == date % 7

\* new Date(year, month - 1, day) for the months of the window.
DateOf(year, month, day) ==
    IF month = 1 THEN YearStart(year) + day - 1
    ELSE YearStart(year) + DaysInYear(year) - 1 - (31 - day)

\* Formats a date as YYYY-MM-DD (<<year, month, day>>).
toLocalISOString(date) ==
    Only({IF date - YearStart(year) < DaysInYear(year) - DecDays
          THEN <<year, 1, date - YearStart(year) + 1>>
          ELSE <<year, 12, 31 - (YearStart(year + 1) - 1 - date)>> :
             year \in {getFullYear(date)}})

\* const [y, m, d] = dateStr.split('-').map(Number); new Date(y, m - 1, d)
ParseDate(dateStr) == DateOf(dateStr[1], dateStr[2], dateStr[3])

\* addDays(date, days)
addDays(date, days) == date + days

(* --------------------------- configuration ---------------------------- *)

REGIONS == {"england-wales", "scotland", "northern-ireland", "qatar", "uae"}

WEEKEND_PRESETS == ("sat-sun" :> {6, 0}) @@ ("fri-sat" :> {5, 6})

LOCATION_CONFIG ==
    ("england-wales"    :> [countryCode |-> "GB", holidaySource |-> "uk",      defaultWeekend |-> "sat-sun"]) @@
    ("scotland"         :> [countryCode |-> "GB", holidaySource |-> "uk",      defaultWeekend |-> "sat-sun"]) @@
    ("northern-ireland" :> [countryCode |-> "GB", holidaySource |-> "uk",      defaultWeekend |-> "sat-sun"]) @@
    ("qatar"            :> [countryCode |-> "QA", holidaySource |-> "dataset", defaultWeekend |-> "fri-sat"]) @@
    ("uae"              :> [countryCode |-> "AE", holidaySource |-> "dataset", defaultWeekend |-> "sat-sun"])

\* A name every object literal inherits from Object.prototype: obj[name] is a
\* function, a truthy value, although name is no key of the literal.
ObjectPrototypeKeys == {"constructor"}

\* obj[key] is truthy, for the object literals WEEKEND_PRESETS and
\* LOCATION_CONFIG: key is one of their keys or an inherited name.
HasKey(obj, key) == key \in DOMAIN obj \/ key \in ObjectPrototypeKeys

isDatasetLocation(location) ==
    location \in DOMAIN LOCATION_CONFIG /\ LOCATION_CONFIG[location].holidaySource = "dataset"

\* getWeekendPreset(key).days: the days of the preset, with the fallback to
\* the default weekend of the region in effect.  For an inherited name the
\* value returned is not a preset and has no days (NoDays).
NoDays == {}

getWeekendPreset(key, region) ==
    IF key \in DOMAIN WEEKEND_PRESETS THEN WEEKEND_PRESETS[key]
    ELSE IF HasKey(WEEKEND_PRESETS, key) THEN NoDays
    ELSE LET fallbackKey == IF region \in DOMAIN LOCATION_CONFIG
                            THEN LOCATION_CONFIG[region].defaultWeekend
                            ELSE "sat-sun"
         IN  WEEKEND_PRESETS[fallbackKey]

\* customHolidaysByLocation[location] || []
getCustomHolidaysForLocation(customs, location) ==
    IF location \in DOMAIN customs THEN customs[location] ELSE <<>>


(* ------------------------------ holidays ------------------------------ *)

\* The value null of a holiday name.
Null == "null"

\* name + " (Substitute)"
SubstituteName(name) ==
    CASE name = "New Year's Day" -> "New Year's Day (Substitute)"
      [] name = "Christmas Day"  -> "Christmas Day (Substitute)"
      [] name = "Boxing Day"     -> "Boxing Day (Substitute)"
      [] OTHER                   -> name

\* The weekend substitution "Sunday to the Monday after it, Saturday two
\* days on" of createHoliday (rule 'next-monday') and getScotlandJan2.
NextMonday(date) ==
    IF getDay(date) = 0 THEN date + 1
    ELSE IF getDay(date) = 6 THEN date + 2
    ELSE date

\* createHoliday(date, name) with the rule 'next-monday'.
createHoliday(date, name) ==
    [date |-> toLocalISOString(NextMonday(date)),
     name |-> IF NextMonday(date) # date THEN SubstituteName(name) ELSE name]

\* A faulty variant: 2nd January with the weekend handling alone.
PlainJan2(year, jan1Holiday) ==
    [date |-> toLocalISOString(NextMonday(DateOf(year, 1, 2))), name |-> "2nd January"]

\* 2nd January (Scotland only), moved one further day when it lands on the
\* New Year's Day entry.
getScotlandJan2(year, jan1Holiday) ==
    [date |-> IF toLocalISOString(NextMonday(DateOf(year, 1, 2))) = jan1Holiday.date
              THEN toLocalISOString(NextMonday(DateOf(year, 1, 2)) + 1)
              ELSE toLocalISOString(NextMonday(DateOf(year, 1, 2))),
     name |-> "2nd January"]

\* A faulty variant: both days on their nominal dates, whatever the weekday.
NominalChristmas(year) ==
    << [date |-> toLocalISOString(DateOf(year, 12, 25)), name |-> "Christmas Day"],
       [date |-> toLocalISOString(DateOf(year, 12, 26)), name |-> "Boxing Day"] >>

\* Christmas Day and Boxing Day with their coupled substitution.
getChristmasHolidays(year) ==
    << IF getDay(DateOf(year, 12, 25)) = 6 \/ getDay(DateOf(year, 12, 25)) = 0
       THEN [date |-> toLocalISOString(DateOf(year, 12, 27)),
             name |-> "Christmas Day (Substitute)"]
       ELSE [date |-> toLocalISOString(DateOf(year, 12, 25)), name |-> "Christmas Day"],
       IF getDay(DateOf(year, 12, 26)) = 6 \/ getDay(DateOf(year, 12, 26)) = 0
       THEN [date |-> toLocalISOString(DateOf(year, 12, 28)),
             name |-> "Boxing Day (Substitute)"]
       ELSE [date |-> toLocalISOString(DateOf(year, 12, 26)), name |-> "Boxing Day"] >>

\* holidays.some(eh => eh.date === dateStr)
HasDate(holidays, dateStr) ==
    \E i \in 1..Len(holidays) : holidays[i].date = dateStr

\* A faulty variant: every custom holiday is pushed, whatever the list holds.
AppendCustomHolidays(holidays, customHolidays) == holidays \o customHolidays

\* customHolidays.forEach(h => { if (!holidays.some(...)) holidays.push(h) })
RECURSIVE MergeCustomHolidays(_, _)
MergeCustomHolidays(holidays, customHolidays) ==
    IF customHolidays = <<>> THEN holidays
    ELSE MergeCustomHolidays(IF HasDate(holidays, Head(customHolidays).date) THEN holidays
                             ELSE Append(holidays, Head(customHolidays)),
                             Tail(customHolidays))

\* getUKHolidays(year, region).  The entries between 2nd January and
\* Christmas (St Patrick's Day .. St Andrew's Day) have dates outside the
\* modelled window of the year and are not listed.
getUKHolidays(year, region, customs) ==
    Only({MergeCustomHolidays(
              <<newYear>>
              \o (IF region = "scotland" THEN <<getScotlandJan2(year, newYear)>> ELSE <<>>)
              \o getChristmasHolidays(year),
              getCustomHolidaysForLocation(customs, region)) :
             newYear \in {createHoliday(DateOf(year, 1, 1), "New Year's Day")}})

\* The holiday datasets the fetch can deliver: countryCode -> year -> list.
\* "ds-dated" carries an updatedAt stamp, "ds-plain" carries none.
HolidayDatasets ==
    ("ds-dated" :>
        [updatedAt |-> "2025-01-06",
         countries |->
            ("QA" :> ((BaseYear + 1 :> <<[date |-> <<BaseYear + 1, 1, 3>>, name |-> "Sports Day"]>>) @@
                      (BaseYear + 2 :> <<[date |-> <<BaseYear + 2, 12, 29>>, name |-> "National Day"]>>)) ) @@
            ("AE" :> ((BaseYear + 1 :> <<[date |-> <<BaseYear + 1, 1, 1>>, name |-> "New Year"]>>) @@
                      (BaseYear + 2 :> <<[date |-> <<BaseYear + 2, 1, 1>>, name |-> "New Year"],
                                         [date |-> <<BaseYear + 2, 12, 30>>, name |-> "Commemoration Day"]>>)) )]) @@
    ("ds-plain" :>
        [updatedAt |-> Null,
         countries |->
            ("QA" :> (BaseYear + 1 :> <<[date |-> <<BaseYear + 1, 1, 4>>, name |-> "Sports Day"]>>)) @@
            ("AE" :> (BaseYear + 1 :> <<>>))])

\* The value null of holidayDataset.
NoDataset == "none"

\* holidayDataset.updatedAt || holidayDataset.generatedAt, else 'no-data'
DatasetKey(dataset) ==
    IF dataset # NoDataset /\ HolidayDatasets[dataset].updatedAt # Null
    THEN HolidayDatasets[dataset].updatedAt
    ELSE "no-data"

\* countries[config.countryCode].years[String(year)], null when absent
DatasetYearList(year, location, dataset) ==
    Only({IF year \in DOMAIN years THEN years[year] ELSE <<>> :
             years \in {IF LOCATION_CONFIG[location].countryCode
                              \in DOMAIN HolidayDatasets[dataset].countries
                        THEN HolidayDatasets[dataset].countries[
                                 LOCATION_CONFIG[location].countryCode]
                        ELSE <<>>}})

\* getDatasetHolidays(year, location)
getDatasetHolidays(year, location, dataset) ==
    IF location \notin DOMAIN LOCATION_CONFIG \/ dataset = NoDataset THEN <<>>
    ELSE DatasetYearList(year, location, dataset)

\* hasHolidayDataForYear(location, year)
hasHolidayDataForYear(location, year, dataset) ==
    /\ location \in DOMAIN LOCATION_CONFIG
    /\ dataset # NoDataset
    /\ DatasetYearList(year, location, dataset) # <<>>

\* The list getHolidaysForYear computes on a cache miss.
ResolveHolidays(year, region, customs, dataset) ==
    IF isDatasetLocation(region)
    THEN MergeCustomHolidays(getDatasetHolidays(year, region, dataset),
                             getCustomHolidaysForLocation(customs, region))
    ELSE getUKHolidays(year, region, customs)

\* `${year}-${region}-${customCount}-${datasetKey}`
HolidaysCacheKey(year, region, customs, dataset) ==
    <<year, region, Len(getCustomHolidaysForLocation(customs, region)), DatasetKey(dataset)>>

\* lookup.get(dateString): new Map(holidays.map(h => [h.date, h])) keeps the
\* last entry of a date.
LookupGet(holidays, dateStr) ==
    IF HasDate(holidays, dateStr)
    THEN holidays[CHOOSE i \in 1..Len(holidays) :
                      /\ holidays[i].date = dateStr
                      /\ \A j \in (i + 1)..Len(holidays) : holidays[j].date # dateStr].name
    ELSE Null



(* -------------------- caches and day classification ------------------- *)
(* The engine's functions read and write module-level variables.  They are *)
(* modelled as operators on an environment record e that holds those       *)
(* variables under their source names; an operator with a result returns   *)
(* [v |-> result, e |-> environment after the call].                       *)

\* An empty Map / a null array.
EmptyMap == << >>
NullArray == << >>

(* Faulty variants of operators of this section, by which the properties    *)
(* are tested for their sensitivity to the invalidation and the expansion.  *)

\* The invalidation that leaves the DayTypeIndex in place.
ClearInsightMaps(e) ==
    [e EXCEPT !.dayInsightCache = EmptyMap,
              !.yearComparisonCache = EmptyMap,
              !.bookedDaysIndices = NullArray]

\* holidaysCache left as it is.
KeepHolidaysCache(e) == e

\* A range end that is not expanded.
NoExpansion(e, date, step, bookedSet) == [v |-> date, e |-> e]

\* invalidateInsightCaches()
invalidateInsightCaches(e) ==
    [e EXCEPT !.dayInsightCache = EmptyMap,
              !.yearComparisonCache = EmptyMap,
              !.dayTypeCache = NullArray,
              !.dayTypeCacheRegion = Null,
              !.dayTypeCacheWeekend = Null,
              !.dayTypeCacheCustomCount = -1,
              !.bookedDaysIndices = NullArray]

\* holidaysCache.clear()
holidaysCacheClear(e) == [e EXCEPT !.holidaysCache = EmptyMap]

\* showToast(message, type) reads the global document without a typeof
\* guard: a ReferenceError where there is none.
showToastThrows(e) == ~e.hasDocument

\* warnHolidayDataUnavailable(location, year): [threw, e].  The key is added
\* before showToast is called; renderHolidayDataStatus only writes to the page.
warnHolidayDataUnavailable(e, location, year) ==
    IF \/ ~isDatasetLocation(location)
       \/ year # e.currentYear
       \/ <<location, year>> \in e.holidayDataWarnings
    THEN [threw |-> FALSE, e |-> e]
    ELSE [threw |-> showToastThrows(e),
          e |-> [e EXCEPT !.holidayDataWarnings = @ \cup {<<location, year>>}]]

\* The dataset is loaded and its list for the year is missing or empty: the
\* case in which getDatasetHolidays calls warnHolidayDataUnavailable.
DatasetListMissing(year, location, dataset) ==
    /\ location \in DOMAIN LOCATION_CONFIG
    /\ dataset # NoDataset
    /\ DatasetYearList(year, location, dataset) = << >>

\* getHolidaysForYear(year, region): the cached list, computed on a miss;
\* [v, e, threw], threw being whether the call ended in an exception.
getHolidaysForYear(e, year, region) ==
    LET key == HolidaysCacheKey(year, region, e.customHolidaysByLocation, e.holidayDataset)
    IN  IF key \in DOMAIN e.holidaysCache
        THEN [v |-> e.holidaysCache[key], e |-> e, threw |-> FALSE]
        ELSE Only({IF warned.threw
                   THEN [v |-> << >>, e |-> warned.e, threw |-> TRUE]
                   ELSE Only({[v |-> holidays,
                               e |-> [warned.e EXCEPT
                                         !.holidaysCache = (key :> holidays) @@ e.holidaysCache],
                               threw |-> FALSE] :
                                 holidays \in {ResolveHolidays(year, region,
                                                               e.customHolidaysByLocation,
                                                               e.holidayDataset)}}) :
                      warned \in {IF isDatasetLocation(region)
                                     /\ DatasetListMissing(year, region, e.holidayDataset)
                                  THEN warnHolidayDataUnavailable(e, region, year)
                                  ELSE [threw |-> FALSE, e |-> e]}})

\* getHolidayName(date)
getHolidayName(e, date) ==
    Only({[v |-> IF r.threw THEN Null ELSE LookupGet(r.v, toLocalISOString(date)),
           e |-> r.e, threw |-> r.threw] :
             r \in {getHolidaysForYear(e, getFullYear(date), e.currentRegion)}})

\* isHoliday(date)
isHoliday(e, date) ==
    Only({[v |-> name.v # Null, e |-> name.e, threw |-> name.threw] :
             name \in {getHolidayName(e, date)}})

\* isWeekend(date)
isWeekend(e, date) ==
    getDay(date) \in getWeekendPreset(e.currentWeekendPattern, e.currentRegion)

\* preset.days.includes(day) of isWeekend is a TypeError when the value
\* getWeekendPreset returns is not a preset: currentWeekendPattern is an
\* inherited name.
isWeekendThrows(e) ==
    /\ e.currentWeekendPattern \notin DOMAIN WEEKEND_PRESETS
    /\ HasKey(WEEKEND_PRESETS, e.currentWeekendPattern)

\* The direct classification of a date: the last three lines of getDayType.
ClassifyDate(e, date) ==
    Only({[v |-> IF holiday.v THEN "holiday"
                 ELSE IF isWeekend(holiday.e, date) THEN "weekend"
                 ELSE "workday",
           e |-> holiday.e] :
             holiday \in {isHoliday(e, date)}})

\* The loop of ensureDayTypeCache for the indices lo .. hi in ascending order:
\* filled.v holds dayTypeCache[0 .. lo - 1] on entry and dayTypeCache[0 .. hi]
\* on return.  (The range is halved to keep the evaluation shallow.)
RECURSIVE FillDayTypes(_, _, _, _)
FillDayTypes(filled, year, lo, hi) ==
    IF lo > hi THEN filled
    ELSE IF lo = hi
    THEN Only({[v |-> Append(filled.v, type.v), e |-> type.e] :
                  type \in {ClassifyDate(filled.e, YearStart(year) + lo)}})
    ELSE Only({FillDayTypes(lower, year, (lo + hi) \div 2 + 1, hi) :
                  lower \in {FillDayTypes(filled, year, lo, (lo + hi) \div 2)}})

\* ensureDayTypeCache(year)
ensureDayTypeCache(e, year) ==
    LET customCount ==
            Len(getCustomHolidaysForLocation(e.customHolidaysByLocation, e.currentRegion))
    IN  IF /\ e.dayTypeCache # NullArray
           /\ e.dayTypeCacheYear = year
           /\ e.dayTypeCacheRegion = e.currentRegion
           /\ e.dayTypeCacheWeekend = e.currentWeekendPattern
           /\ e.dayTypeCacheCustomCount = customCount
        THEN e
        ELSE Only({[filled.e EXCEPT !.dayTypeCache = filled.v,
                                    !.dayTypeCacheYear = year,
                                    !.dayTypeCacheRegion = e.currentRegion,
                                    !.dayTypeCacheWeekend = e.currentWeekendPattern,
                                    !.dayTypeCacheCustomCount = customCount] :
                      filled \in {FillDayTypes([v |-> << >>, e |-> e], year, 0,
                                               DaysInYear(year) - 1)}})

\* The slot of an array that was never assigned.
Undefined == "undefined"

\* The condition on which ensureDayTypeCache(year) returns at once.
DayTypeCacheValid(e, year) ==
    /\ e.dayTypeCache # NullArray
    /\ e.dayTypeCacheYear = year
    /\ e.dayTypeCacheRegion = e.currentRegion
    /\ e.dayTypeCacheWeekend = e.currentWeekendPattern
    /\ e.dayTypeCacheCustomCount =
           Len(getCustomHolidaysForLocation(e.customHolidaysByLocation, e.currentRegion))

\* ensureDayTypeCache(year) ends in the exception of isWeekend.
ensureDayTypeCacheThrows(e, year) == isWeekendThrows(e) /\ ~DayTypeCacheValid(e, year)

\* The state ensureDayTypeCache(year) leaves when isWeekend throws: the keys
\* of the index and the new array are assigned before the loop, which fills
\* the holidays the year begins with and stops at the first other day.
AbandonedDayTypeCache(e, year) ==
    Only({[resolved.e EXCEPT
              !.dayTypeCache =
                  [i \in 1..DaysInYear(year) |->
                      IF \A j \in 1..i :
                             LookupGet(resolved.v, toLocalISOString(YearStart(year) + j - 1)) # Null
                      THEN "holiday" ELSE Undefined],
              !.dayTypeCacheYear = year,
              !.dayTypeCacheRegion = e.currentRegion,
              !.dayTypeCacheWeekend = e.currentWeekendPattern,
              !.dayTypeCacheCustomCount =
                  Len(getCustomHolidaysForLocation(e.customHolidaysByLocation,
                                                   e.currentRegion))] :
             resolved \in {getHolidaysForYear(e, year, e.currentRegion)}})

\* getDayType(date).  c is the environment after the branch
\* "else if (year === currentYear) ensureDayTypeCache(currentYear)", which is
\* taken when the cache is not of the date's year and the date lies in
\* currentYear; the cached type is read when the cache is of the date's year,
\* the date is classified directly otherwise.
getDayType(e, date) ==
    LET year == getFullYear(date)
    IN  Only({IF /\ c.dayTypeCache # NullArray /\ c.dayTypeCacheYear = year
                 /\ date - YearStart(c.dayTypeCacheYear) >= 0
                 /\ date - YearStart(c.dayTypeCacheYear) < Len(c.dayTypeCache)
              THEN [v |-> c.dayTypeCache[date - YearStart(c.dayTypeCacheYear) + 1], e |-> c]
              ELSE ClassifyDate(c, date) :
                 c \in {IF /\ ~(e.dayTypeCache # NullArray /\ e.dayTypeCacheYear = year)
                           /\ year = e.currentYear
                        THEN ensureDayTypeCache(e, e.currentYear)
                        ELSE e}})

\* isNonWorkday(date)
isNonWorkday(e, date) ==
    Only({[v |-> type.v = "holiday" \/ type.v = "weekend", e |-> type.e] :
             type \in {getDayType(e, date)}})

\* isDayOff(date, bookedSet); bookedSet = {} stands for null as well, for
\* has() is false of both.
isDayOff(e, date, bookedSet) ==
    Only({[v |-> nonWorkday.v \/ toLocalISOString(date) \in bookedSet, e |-> nonWorkday.e] :
             nonWorkday \in {isNonWorkday(e, date)}})


(* ------------------------- LeaveBlockExpander ------------------------- *)

\* A faulty variant: a day outside the indexed year counts as a workday.
OffInsideYearOnly(e, idx, isOffArray, year) ==
    [v |-> idx >= 0 /\ idx < Len(isOffArray) /\ isOffArray[idx + 1] = 1, e |-> e]

\* isOffByIndex(idx, isOffArray, year): the array inside the year, the
\* date-based classification (with no booked set) outside it.
isOffByIndex(e, idx, isOffArray, year) ==
    IF idx >= 0 /\ idx < Len(isOffArray)
    THEN [v |-> isOffArray[idx + 1] = 1, e |-> e]
    ELSE isDayOff(e, YearStart(year) + idx, {})

\* while (isOffByIndex(currentIdx, ...)) currentIdx++
RECURSIVE SkipOffByIndex(_, _, _, _)
SkipOffByIndex(e, currentIdx, isOffArray, year) ==
    Only({IF off.v THEN SkipOffByIndex(off.e, currentIdx + 1, isOffArray, year)
          ELSE [v |-> currentIdx, e |-> off.e] :
             off \in {isOffByIndex(e, currentIdx, isOffArray, year)}})

\* while (daysCounted < leaveDaysToUse) { ... currentIdx++ }: the index of
\* the last workday consumed.
RECURSIVE ConsumeByIndex(_, _, _, _, _, _, _)
ConsumeByIndex(e, currentIdx, daysCounted, lastBookedIdx, leaveDaysToUse, isOffArray, year) ==
    IF daysCounted >= leaveDaysToUse THEN [v |-> lastBookedIdx, e |-> e]
    ELSE Only({ConsumeByIndex(off.e, currentIdx + 1,
                              IF ~off.v THEN daysCounted + 1 ELSE daysCounted,
                              IF ~off.v THEN currentIdx ELSE lastBookedIdx,
                              leaveDaysToUse, isOffArray, year) :
                  off \in {isOffByIndex(e, currentIdx, isOffArray, year)}})

\* while (true) { if (!isOffByIndex(idx + step, ...)) break; idx += step }:
\* the expansion of one end of the range through off days, step -1 or +1.
RECURSIVE ExpandByIndex(_, _, _, _, _)
ExpandByIndex(e, idx, step, isOffArray, year) ==
    Only({IF off.v THEN ExpandByIndex(off.e, idx + step, step, isOffArray, year)
          ELSE [v |-> idx, e |-> off.e] :
             off \in {isOffByIndex(e, idx + step, isOffArray, year)}})

\* calculateContinuousLeaveByIndex(startIdx, leaveDaysToUse, isOffArray, year):
\* the skip to the first workday, the consumption of the leave days, the
\* expansion backwards and the expansion forwards, in this order.
calculateContinuousLeaveByIndex(e, startIdx, leaveDaysToUse, isOffArray, year) ==
    Only({Only({Only({Only({
        [v |-> [startIdx      |-> rangeStart.v,
                endIdx        |-> rangeEnd.v,
                leaveDaysUsed |-> leaveDaysToUse,
                totalDaysOff  |-> rangeEnd.v - rangeStart.v + 1],
         e |-> rangeEnd.e] :
        rangeEnd \in {ExpandByIndex(rangeStart.e, last.v, 1, isOffArray, year)}}) :
        rangeStart \in {ExpandByIndex(last.e, first.v, -1, isOffArray, year)}}) :
        last \in {ConsumeByIndex(first.e, first.v, 0, first.v, leaveDaysToUse,
                                 isOffArray, year)}}) :
        first \in {SkipOffByIndex(e, startIdx, isOffArray, year)}})

\* while (isDayOff(current, bookedSet)) current.setDate(current.getDate() + 1)
RECURSIVE SkipOff(_, _, _)
SkipOff(e, current, bookedSet) ==
    Only({IF off.v THEN SkipOff(off.e, current + 1, bookedSet)
          ELSE [v |-> current, e |-> off.e] :
             off \in {isDayOff(e, current, bookedSet)}})

\* while (daysCounted < leaveDaysToUse) { ... }: the list leaveDaysBooked.
RECURSIVE ConsumeLeave(_, _, _, _, _)
ConsumeLeave(e, current, leaveDaysBooked, leaveDaysToUse, bookedSet) ==
    IF Len(leaveDaysBooked) >= leaveDaysToUse THEN [v |-> leaveDaysBooked, e |-> e]
    ELSE Only({ConsumeLeave(off.e, current + 1,
                            IF ~off.v THEN Append(leaveDaysBooked, current)
                            ELSE leaveDaysBooked,
                            leaveDaysToUse, bookedSet) :
                  off \in {isDayOff(e, current, bookedSet)}})

\* The expansion of one end of the range through off days, step -1 or +1.
RECURSIVE ExpandRange(_, _, _, _)
ExpandRange(e, date, step, bookedSet) ==
    Only({IF off.v THEN ExpandRange(off.e, date + step, step, bookedSet)
          ELSE [v |-> date, e |-> off.e] :
             off \in {isDayOff(e, date + step, bookedSet)}})

\* The result null of calculateContinuousLeave.
NoBlock == [leaveDaysUsed |-> 0]

\* calculateContinuousLeave(startDate, leaveDaysToUse, bookedSet): the skip
\* to the first workday, the consumption of the leave days, the expansion
\* backwards and the expansion forwards, in this order.
calculateContinuousLeave(e, startDate, leaveDaysToUse, bookedSet) ==
    Only({Only({
        IF Len(booked.v) = 0 THEN [v |-> NoBlock, e |-> booked.e]
        ELSE Only({Only({
            [v |-> [startDate     |-> rangeStart.v,
                    endDate       |-> rangeEnd.v,
                    leaveDaysUsed |-> leaveDaysToUse,
                    totalDaysOff  |-> rangeEnd.v - rangeStart.v + 1,
                    bookedDates   |-> booked.v],
             e |-> rangeEnd.e] :
            rangeEnd \in {ExpandRange(rangeStart.e, booked.v[Len(booked.v)], 1, bookedSet)}}) :
            rangeStart \in {ExpandRange(booked.e, booked.v[1], -1, bookedSet)}}) :
        booked \in {ConsumeLeave(first.e, first.v, << >>, leaveDaysToUse, bookedSet)}}) :
        first \in {SkipOff(e, startDate, bookedSet)}})


(* -------------------- CandidateGenerator and Pruner ------------------- *)

\* a.efficiency > b.efficiency, with efficiency = totalDaysOff / leaveDaysUsed
MoreEfficient(a, b) ==
    a.totalDaysOff * b.leaveDaysUsed > b.totalDaysOff * a.leaveDaysUsed

\* (a, b) => b.totalDaysOff - a.totalDaysOff < 0
Longer(a, b) == a.totalDaysOff > b.totalDaysOff

\* (a, b) => a.startDate - b.startDate < 0
StartsEarlier(a, b) == a.startIdx < b.startIdx

\* The comparators handed to Array.prototype.sort: Before(order, a, b) is
\* "the comparator of that sort puts a strictly before b".
Before(order, a, b) ==
    CASE order = "efficiency" -> MoreEfficient(a, b)
      [] order = "duration"   -> Longer(a, b)
      [] order = "start"      -> StartsEarlier(a, b)

\* The least element of a non-empty set of numbers.
Least(S) == CHOOSE x \in S : \A y \in S : x <= y

\* Array.prototype.sort, a stable sort: an element comes behind the elements
\* the comparator puts before it and behind the earlier elements it is not
\* put before.  ranks[n] is the position of list[n] in the result.
StableSort(list, order) ==
    Only({SubSeq([p \in 1..Len(list) |-> list[CHOOSE n \in 1..Len(list) : ranks[n] = p]],
                 1, Len(list)) :
             ranks \in {SubSeq([n \in 1..Len(list) |->
                                   Cardinality({m \in 1..Len(list) :
                                       \/ Before(order, list[m], list[n])
                                       \/ m < n /\ ~Before(order, list[n], list[m])}) + 1],
                               1, Len(list))}})

\* The elements of a finite set of numbers in ascending order.
Ascending(S) ==
    SubSeq([k \in 1..Cardinality(S) |->
               CHOOSE n \in S : Cardinality({m \in S : m <= n}) = k],
           1, Cardinality(S))

\* The deduplication by the key `${c.startIdx}-${c.endIdx}`: the first
\* candidate of every key is kept.
Deduplicate(list) ==
    Only({SubSeq([k \in 1..Len(firsts) |-> list[firsts[k]]], 1, Len(firsts)) :
             firsts \in {Ascending({n \in 1..Len(list) :
                                       \A m \in 1..(n - 1) :
                                           \/ list[m].startIdx # list[n].startIdx
                                           \/ list[m].endIdx # list[n].endIdx})}})

\* for (let len = 1; len <= maxChunk; len++): the candidates of one start
\* index appended to the list (a result is an object, never null).
RECURSIVE ChunkLoop(_, _, _, _, _, _, _)
ChunkLoop(e, i, len, allowance, isOffArray, year, candidates) ==
    IF len > allowance THEN [v |-> candidates, e |-> e]
    ELSE Only({ChunkLoop(result.e, i, len + 1, allowance, isOffArray, year,
                         Append(candidates, result.v)) :
                  result \in {calculateContinuousLeaveByIndex(e, i, len, isOffArray, year)}})

\* for (let i = 0; i < daysCount; i++) for the indices lo .. hi in ascending
\* order: the start indices that are workdays.  (The range is halved to keep
\* the evaluation shallow.)
RECURSIVE CandidateLoop(_, _, _, _, _, _)
CandidateLoop(sofar, lo, hi, allowance, isOffArray, year) ==
    IF lo > hi THEN sofar
    ELSE IF lo = hi
    THEN IF isOffArray[lo + 1] = 0
         THEN ChunkLoop(sofar.e, lo, 1, allowance, isOffArray, year, sofar.v)
         ELSE sofar
    ELSE Only({CandidateLoop(lower, (lo + hi) \div 2 + 1, hi, allowance, isOffArray, year) :
                  lower \in {CandidateLoop(sofar, lo, (lo + hi) \div 2, allowance, isOffArray,
                                           year)}})

\* isOffArray[i] = dayTypeCache[i] !== 'workday' ? 1 : 0
IsOffArray(dayTypes, daysCount) ==
    SubSeq([i \in 1..daysCount |->
               IF i <= Len(dayTypes) /\ dayTypes[i] = "workday" THEN 0 ELSE 1],
           1, daysCount)

\* generateAllCandidates(year, allowance)
generateAllCandidates(e, year, allowance) ==
    Only({Only({[v |-> Deduplicate(all.v), e |-> all.e] :
        all \in {CandidateLoop([v |-> << >>, e |-> e1], 0, DaysInYear(year) - 1, allowance,
                               IsOffArray(e1.dayTypeCache, DaysInYear(year)), year)}}) :
        e1 \in {ensureDayTypeCache(e, year)}})

\* slice(0, 100) of the candidates by efficiency, slice(0, 50) by duration.
TopEfficientCount == 100
TopLongCount == 50

\* list.slice(0, n)
Slice(list, n) == SubSeq(list, 1, IF Len(list) < n THEN Len(list) ELSE n)

\* selectTopCandidates(candidates)
selectTopCandidates(candidates) ==
    StableSort(Deduplicate(Slice(StableSort(candidates, "efficiency"), TopEfficientCount)
                           \o Slice(StableSort(candidates, "duration"), TopLongCount)),
               "efficiency")


(* -------------------------- CombinationSolver ------------------------- *)

(* Faulty variants of operators of the solver, by which the properties are  *)
(* tested for their sensitivity to the solver's steps.                      *)

\* The guard without its test of the allowance.
EmptyPool(candidates, allowance) == Len(candidates) = 0

\* The sweep with j left where it is.
StayAtJ(sortedCandidates, i, j) == j

\* The solver that returns the whole pool.
WholePool(candidates, allowance) == [threw |-> FALSE, combo |-> candidates]

\* One day more than the allowance.
OneDayMore(allowance) == allowance + 1

\* if (candidates.length == 0 || allowance <= 0) return bestCombo
NothingToSolve(candidates, allowance) == Len(candidates) = 0 \/ allowance <= 0

\* while (j < N && sortedCandidates[j].startDate <= sortedCandidates[i].endDate) j++
\* (the startDate and endDate of a candidate are its startIdx and endIdx).
AdvanceJ(sortedCandidates, i, j) ==
    IF \E x \in j..(Len(sortedCandidates) - 1) :
           ~(sortedCandidates[x + 1].startIdx <= sortedCandidates[i + 1].endIdx)
    THEN Least({x \in j..(Len(sortedCandidates) - 1) :
                   ~(sortedCandidates[x + 1].startIdx <= sortedCandidates[i + 1].endIdx)})
    ELSE IF j < Len(sortedCandidates) THEN Len(sortedCandidates) ELSE j

\* The sweep that fills nextCompatible for i = lo .. hi in ascending order; j
\* never moves back.  swept.next is the array as a sequence (nextCompatible[i]
\* at position i + 1), indices counted from 0 as in the source.  (The range
\* is halved to keep the evaluation shallow.)
RECURSIVE NextCompatibleFrom(_, _, _, _)
NextCompatibleFrom(sortedCandidates, lo, hi, swept) ==
    IF lo > hi THEN swept
    ELSE IF lo = hi
    THEN Only({[j |-> j, next |-> Append(swept.next, j)] :
                  j \in {AdvanceJ(sortedCandidates, lo,
                                  IF swept.j < lo + 1 THEN lo + 1 ELSE swept.j)}})
    ELSE Only({NextCompatibleFrom(sortedCandidates, (lo + hi) \div 2 + 1, hi, lower) :
                  lower \in {NextCompatibleFrom(sortedCandidates, lo, (lo + hi) \div 2,
                                                swept)}})

NextCompatible(sortedCandidates) ==
    NextCompatibleFrom(sortedCandidates, 0, Len(sortedCandidates) - 1,
                       [j |-> 0, next |-> << >>]).next

\* const K_MAX = 3
K_MAX == 3

\* for (let k = 3; k >= 1; k--): the k the selection starts with
SelectionStartK == 3

\* const W_MAX = allowance
WMax(allowance) == allowance

\* const ROW_SIZE = SIZE_K * SIZE_W
RowSize(W_MAX) == (K_MAX + 1) * (W_MAX + 1)

\* memo[i * ROW_SIZE + k * SIZE_W + w], the table held as the list of its
\* rows from, from + 1, .. N.
MemoAt(memo, from, i, k, w, W_MAX) == memo[i - from + 1][k * (W_MAX + 1) + w + 1]

\* The base row i = N: 0 for k = 0, -1 otherwise.
BaseRow(W_MAX) ==
    SubSeq([x \in 1..RowSize(W_MAX) |-> IF (x - 1) \div (W_MAX + 1) = 0 THEN 0 ELSE -1],
           1, RowSize(W_MAX))

\* The body of the two inner loops of the fill: memo[i][k][w], memo holding
\* the rows i + 1 .. N.
MemoEntry(sortedCandidates, nextCompatible, memo, i, k, w, W_MAX) ==
    IF /\ k > 0
       /\ w >= sortedCandidates[i + 1].leaveDaysUsed
       /\ MemoAt(memo, i + 1, nextCompatible[i + 1], k - 1,
                 w - sortedCandidates[i + 1].leaveDaysUsed, W_MAX) # -1
       /\ sortedCandidates[i + 1].totalDaysOff
              + MemoAt(memo, i + 1, nextCompatible[i + 1], k - 1,
                       w - sortedCandidates[i + 1].leaveDaysUsed, W_MAX)
          > MemoAt(memo, i + 1, i + 1, k, w, W_MAX)
    THEN sortedCandidates[i + 1].totalDaysOff
             + MemoAt(memo, i + 1, nextCompatible[i + 1], k - 1,
                      w - sortedCandidates[i + 1].leaveDaysUsed, W_MAX)
    ELSE MemoAt(memo, i + 1, i + 1, k, w, W_MAX)

\* The row i of the table.
MemoRow(sortedCandidates, nextCompatible, memo, i, W_MAX) ==
    SubSeq([x \in 1..RowSize(W_MAX) |->
               MemoEntry(sortedCandidates, nextCompatible, memo, i,
                         (x - 1) \div (W_MAX + 1), (x - 1) % (W_MAX + 1), W_MAX)],
           1, RowSize(W_MAX))

\* The table filled backwards, for (let i = N - 1; i >= 0; i--), for the rows
\* hi down to lo: after holds the rows hi + 1 .. N, the result the rows
\* lo .. N.  (The range is halved to keep the evaluation shallow.)
RECURSIVE FillMemo(_, _, _, _, _, _)
FillMemo(sortedCandidates, nextCompatible, lo, hi, W_MAX, after) ==
    IF lo > hi THEN after
    ELSE IF lo = hi
    THEN <<MemoRow(sortedCandidates, nextCompatible, after, lo, W_MAX)>> \o after
    ELSE Only({FillMemo(sortedCandidates, nextCompatible, lo, (lo + hi) \div 2, W_MAX, upper) :
                  upper \in {FillMemo(sortedCandidates, nextCompatible, (lo + hi) \div 2 + 1,
                                      hi, W_MAX, after)}})

\* computeScore(totalOff, totalLeave) * totalLeave, an integer:
\* score = totalOff * 1000 + (totalOff / totalLeave) * 10 - totalLeave.
ScoreTimesLeave(totalOff, totalLeave) ==
    totalOff * 1000 * totalLeave + totalOff * 10 - totalLeave * totalLeave

\* computeScore(t1, w1) > computeScore(t2, w2), for w1, w2 > 0
ScoreGreater(t1, w1, t2, w2) ==
    ScoreTimesLeave(t1, w1) * w2 > ScoreTimesLeave(t2, w2) * w1

\* The loop over w of one k: the w of the best score, -1 when no w has
\* memo[0][k][w] > 0.  (A score is never below 0 for 1 <= w <= 365.)
RECURSIVE LocalBestW(_, _, _, _, _)
LocalBestW(memo, k, w, W_MAX, localBestW) ==
    IF w > W_MAX THEN localBestW
    ELSE IF /\ MemoAt(memo, 0, 0, k, w, W_MAX) > 0
            /\ \/ localBestW = -1
               \/ ScoreGreater(MemoAt(memo, 0, 0, k, w, W_MAX), w,
                               MemoAt(memo, 0, 0, k, localBestW, W_MAX), localBestW)
    THEN LocalBestW(memo, k, w + 1, W_MAX, w)
    ELSE LocalBestW(memo, k, w + 1, W_MAX, localBestW)

\* for (let k = 3; k >= 1; k--): the first k with a result, <<foundK, foundW>>.
RECURSIVE FindKW(_, _, _)
FindKW(memo, k, W_MAX) ==
    IF k < 1 THEN <<-1, -1>>
    ELSE Only({IF w # -1 THEN <<k, w>> ELSE FindKW(memo, k - 1, W_MAX) :
                  w \in {LocalBestW(memo, k, 1, W_MAX, -1)}})

\* The test of the reconstruction loop, "takenVal != -2 && takenVal >=
\* skippedVal", of the candidate at index i.
Takes(sortedCandidates, nextCompatible, memo, W_MAX, i, curK, curW) ==
    /\ sortedCandidates[i + 1].leaveDaysUsed <= curW
    /\ MemoAt(memo, 0, nextCompatible[i + 1], curK - 1,
              curW - sortedCandidates[i + 1].leaveDaysUsed, W_MAX) # -1
    /\ sortedCandidates[i + 1].totalDaysOff
           + MemoAt(memo, 0, nextCompatible[i + 1], curK - 1,
                    curW - sortedCandidates[i + 1].leaveDaysUsed, W_MAX)
       >= MemoAt(memo, 0, i + 1, curK, curW, W_MAX)

\* The reconstruction loop, while (curK > 0 && curI < N).  An iteration that
\* takes the else branch changes curI only, so the loop goes on at the first
\* index from curI whose candidate is taken, and ends when there is none.
RECURSIVE Reconstruct(_, _, _, _, _, _, _, _)
Reconstruct(sortedCandidates, nextCompatible, memo, W_MAX, curI, curK, curW, bestCombo) ==
    IF curK > 0
    THEN Only({IF taken = {} THEN bestCombo
               ELSE Reconstruct(sortedCandidates, nextCompatible, memo, W_MAX,
                                nextCompatible[Least(taken) + 1], curK - 1,
                                curW - sortedCandidates[Least(taken) + 1].leaveDaysUsed,
                                Append(bestCombo, sortedCandidates[Least(taken) + 1])) :
                  taken \in {{i \in curI..(Len(sortedCandidates) - 1) :
                                 Takes(sortedCandidates, nextCompatible, memo, W_MAX, i,
                                       curK, curW)}}})
    ELSE bestCombo

\* new Int32Array(length) throws a RangeError on a negative length.
Int32ArrayThrows(length) == length < 0

\* The solver after its guard: [threw, combo], threw being whether the call
\* ended in an exception.
Solve(sortedCandidates, allowance) ==
    IF Int32ArrayThrows((Len(sortedCandidates) + 1) * RowSize(WMax(allowance)))
    THEN [threw |-> TRUE, combo |-> << >>]
    ELSE Only({Only({Only({
        [threw |-> FALSE,
         combo |-> IF found[1] = -1 THEN << >>
                   ELSE StableSort(Reconstruct(sortedCandidates, nextCompatible, memo,
                                               WMax(allowance), 0, found[1], found[2],
                                               << >>),
                                   "start")] :
        found \in {FindKW(memo, SelectionStartK, WMax(allowance))}}) :
        memo \in {FillMemo(sortedCandidates, nextCompatible, 0, Len(sortedCandidates) - 1,
                           WMax(allowance), <<BaseRow(WMax(allowance))>>)}}) :
        nextCompatible \in {NextCompatible(sortedCandidates)}})

\* findBestCombination(candidates, allowance)
findBestCombination(candidates, allowance) ==
    IF NothingToSolve(candidates, allowance) THEN [threw |-> FALSE, combo |-> << >>]
    ELSE Solve(StableSort(candidates, "start"), allowance)

(* ------------------------------ the plan ------------------------------ *)

\* The loop of findOptimalPlan that lists the booked dates of a block: the
\* days of [startIdx, endIdx] inside the array that dayTypeCache holds as
\* workdays.
BookedDatesOfRange(e, c, year) ==
    Only({SubSeq([n \in 1..Len(indices) |-> YearStart(year) + indices[n]], 1, Len(indices)) :
             indices \in {Ascending({i \in c.startIdx..c.endIdx :
                                        /\ i >= 0 /\ i < Len(e.dayTypeCache)
                                        /\ e.dayTypeCache[i + 1] = "workday"})}})

\* The entry of planLog for a plan: the inputs of the computation and the
\* block list returned.
PlanRecord(e, year, allowance, blocks) ==
    [year      |-> year,
     allowance |-> allowance,
     region    |-> e.currentRegion,
     weekend   |-> e.currentWeekendPattern,
     customs   |-> getCustomHolidaysForLocation(e.customHolidaysByLocation, e.currentRegion),
     dataset   |-> e.holidayDataset,
     blocks    |-> blocks]

\* return bestCombo.map(c => ...): the blocks of the plan, their bookedDates
\* read off the dayTypeCache as it is after the search.
PlanBlocks(e, bestCombo, year) ==
    SubSeq([n \in 1..Len(bestCombo) |->
               [startDate     |-> YearStart(year) + bestCombo[n].startIdx,
                endDate       |-> YearStart(year) + bestCombo[n].endIdx,
                leaveDaysUsed |-> bestCombo[n].leaveDaysUsed,
                totalDaysOff  |-> bestCombo[n].totalDaysOff,
                bookedDates   |-> BookedDatesOfRange(e, bestCombo[n], year)]],
           1, Len(bestCombo))

\* findOptimalPlan(year, allowance): [v |-> blocks, threw, e]; the plan
\* returned is entered in planLog.  The call ends in an exception when
\* ensureDayTypeCache(year), its first step, does.
findOptimalPlan(e, year, allowance) ==
    IF ensureDayTypeCacheThrows(e, year)
    THEN [v |-> << >>, threw |-> TRUE, candidates |-> << >>, pool |-> << >>,
          e |-> AbandonedDayTypeCache(e, year)]
    ELSE
    Only({Only({Only({Only({
        [v |-> blocks,
         threw |-> bestCombo.threw,
         candidates |-> uniqueCandidates.v,
         pool |-> topCandidates,
         e |-> [uniqueCandidates.e EXCEPT
                   !.planLog = @ \cup {PlanRecord(e, year, allowance, blocks)}]] :
        blocks \in {PlanBlocks(uniqueCandidates.e, bestCombo.combo, year)}}) :
        bestCombo \in {findBestCombination(topCandidates, allowance)}}) :
        topCandidates \in {selectTopCandidates(uniqueCandidates.v)}}) :
        uniqueCandidates \in {generateAllCandidates(e, year, allowance)}})


(* ---------------- the earlier search, three nested loops --------------- *)

\* overlap(b1, b2)
overlap(b1, b2) == b1.startIdx <= b2.endIdx /\ b1.endIdx >= b2.startIdx

\* The triples i < j < k the three loops score: no two overlap, the first
\* two fit the allowance, and so do all three.  Positions from 1.
ScoredTriples(topCandidates, allowance) ==
    {t \in (1..Len(topCandidates)) \X (1..Len(topCandidates)) \X (1..Len(topCandidates)) :
        /\ t[1] < t[2] /\ t[2] < t[3]
        /\ ~overlap(topCandidates[t[1]], topCandidates[t[2]])
        /\ topCandidates[t[1]].leaveDaysUsed + topCandidates[t[2]].leaveDaysUsed <= allowance
        /\ ~overlap(topCandidates[t[2]], topCandidates[t[3]])
        /\ ~overlap(topCandidates[t[1]], topCandidates[t[3]])
        /\ topCandidates[t[1]].leaveDaysUsed + topCandidates[t[2]].leaveDaysUsed
               + topCandidates[t[3]].leaveDaysUsed <= allowance}

\* The pairs i < j the two loops score.
ScoredPairs(topCandidates, allowance) ==
    {t \in (1..Len(topCandidates)) \X (1..Len(topCandidates)) :
        /\ t[1] < t[2]
        /\ ~overlap(topCandidates[t[1]], topCandidates[t[2]])
        /\ topCandidates[t[1]].leaveDaysUsed + topCandidates[t[2]].leaveDaysUsed <= allowance}

\* The candidates at the positions of a tuple.
TupleBlocks(topCandidates, t) ==
    SubSeq([n \in 1..Len(t) |-> topCandidates[t[n]]], 1, Len(t))

\* Sums of the two measures getScore adds up.
SumLeave(blocks) ==
    IF Len(blocks) = 0 THEN 0
    ELSE blocks[1].leaveDaysUsed
         + (IF Len(blocks) > 1 THEN blocks[2].leaveDaysUsed ELSE 0)
         + (IF Len(blocks) > 2 THEN blocks[3].leaveDaysUsed ELSE 0)

SumOff(blocks) ==
    IF Len(blocks) = 0 THEN 0
    ELSE blocks[1].totalDaysOff
         + (IF Len(blocks) > 1 THEN blocks[2].totalDaysOff ELSE 0)
         + (IF Len(blocks) > 2 THEN blocks[3].totalDaysOff ELSE 0)

\* getScore(a) > getScore(b), as "if (score > maxScore)" compares them.
getScoreGreater(a, b) == ScoreGreater(SumOff(a), SumLeave(a), SumOff(b), SumLeave(b))

\* t is scored before u by the nested loops.
ScoredBefore(t, u) ==
    \E n \in 1..Len(t) : t[n] < u[n] /\ \A m \in 1..(n - 1) : t[m] = u[m]

\* The tuple the loops end with: the first scored of those with the greatest
\* score ("score > maxScore" keeps the earlier of two equal scores).
BestScored(topCandidates, scored) ==
    CHOOSE t \in scored :
        \A u \in scored \ {t} :
            /\ ~getScoreGreater(TupleBlocks(topCandidates, u), TupleBlocks(topCandidates, t))
            /\ \/ getScoreGreater(TupleBlocks(topCandidates, t), TupleBlocks(topCandidates, u))
               \/ ScoredBefore(t, u)

\* The search of the earlier findOptimalPlan over topCandidates: the best
\* triple, without any the best pair, without any the first candidate when
\* it fits; sorted by start.
BruteForceCombination(topCandidates, allowance) ==
    IF ScoredTriples(topCandidates, allowance) # {}
    THEN StableSort(TupleBlocks(topCandidates,
                                BestScored(topCandidates,
                                           ScoredTriples(topCandidates, allowance))),
                    "start")
    ELSE IF ScoredPairs(topCandidates, allowance) # {}
    THEN StableSort(TupleBlocks(topCandidates,
                                BestScored(topCandidates,
                                           ScoredPairs(topCandidates, allowance))),
                    "start")
    ELSE IF Len(topCandidates) > 0 /\ topCandidates[1].leaveDaysUsed <= allowance
    THEN <<topCandidates[1]>>
    ELSE << >>

(* --------------------- day insight, year comparison ------------------- *)

\* ensureBookedDaysIndices(year): the Uint8Array of the booked days of the
\* year, indexed from dayTypeCacheStartTs, which ensureDayTypeCache(year) has
\* set to 1 January of the year.
ensureBookedDaysIndices(e, year) ==
    IF e.bookedDaysIndices # NullArray /\ e.bookedDaysYear = year THEN e
    ELSE Only({[c EXCEPT
                   !.bookedDaysIndices =
                       SubSeq([i \in 1..DaysInYear(year) |->
                                  IF \E dateStr \in c.bookedDates :
                                         /\ dateStr[1] = year
                                         /\ ParseDate(dateStr) - YearStart(year) = i - 1
                                  THEN 1 ELSE 0],
                              1, DaysInYear(year)),
                   !.bookedDaysYear = year] :
                  c \in {ensureDayTypeCache(e, year)}})

\* The helper isOff(idx) of calculateInsightByIndex.
IsOffInsight(e, idx, year) ==
    IF idx < 0 \/ idx >= Len(e.dayTypeCache)
    THEN isDayOff(e, YearStart(year) + idx, e.bookedDates)
    ELSE [v |-> e.dayTypeCache[idx + 1] # "workday" \/ e.bookedDaysIndices[idx + 1] = 1,
          e |-> e]

\* while (isOff(idx + step)) idx += step
RECURSIVE ScanInsight(_, _, _, _)
ScanInsight(e, idx, step, year) ==
    Only({IF off.v THEN ScanInsight(off.e, idx + step, step, year)
          ELSE [v |-> idx, e |-> off.e] :
             off \in {IsOffInsight(e, idx + step, year)}})

\* Faulty variant: the day before alone decides the bridge flag.
BridgeByPrevOnly(e, startIdx, year) == IsOffInsight(e, startIdx - 1, year)

\* const bridge = isOff(startIdx - 1) && isOff(startIdx + 1)
BridgeByIndex(e, startIdx, year) ==
    Only({IF prev.v THEN IsOffInsight(prev.e, startIdx + 1, year)
          ELSE [v |-> FALSE, e |-> prev.e] :
             prev \in {IsOffInsight(e, startIdx - 1, year)}})

\* calculateInsightByIndex(startIdx, year): the skip to the first day that is
\* not off (while (isOff(currentIdx)) currentIdx++), the expansion backwards
\* and forwards from it, the bridge check.
calculateInsightByIndex(e, startIdx, year) ==
    Only({Only({Only({Only({
        [v |-> [efficiency   |-> end.v - start.v + 1,
                totalDaysOff |-> end.v - start.v + 1,
                bridge       |-> bridge.v],
         e |-> bridge.e] :
        bridge \in {BridgeByIndex(end.e, startIdx, year)}}) :
        end \in {ScanInsight(start.e, before.v + 1, 1, year)}}) :
        start \in {ScanInsight(before.e, before.v + 1, -1, year)}}) :
        before \in {ScanInsight(e, startIdx - 1, 1, year)}})

\* bridge = isDayOff(prev, bookedDates) && isDayOff(next, bookedDates)
BridgeByDate(e, date) ==
    Only({IF prev.v THEN isDayOff(prev.e, addDays(date, 1), prev.e.bookedDates)
          ELSE [v |-> FALSE, e |-> prev.e] :
             prev \in {isDayOff(e, addDays(date, -1), e.bookedDates)}})

\* The fallback of getDayInsight to the date-based logic; efficiency is
\* totalDaysOff / 1.
InsightByDate(e, date) ==
    Only({Only({
        [v |-> [efficiency   |-> IF result.v = NoBlock THEN 1 ELSE result.v.totalDaysOff,
                totalDaysOff |-> IF result.v = NoBlock THEN 1 ELSE result.v.totalDaysOff,
                bridge       |-> bridge.v],
         e |-> bridge.e] :
        bridge \in {BridgeByDate(result.e, date)}}) :
        result \in {calculateContinuousLeave(e, date, 1, e.bookedDates)}})

\* The body of "if (!dayInsightCache.has(key))" in getDayInsight up to the
\* cache entry: the index-based calculation when dayTypeCache is of the
\* date's year, the date-based one otherwise.
ComputeInsight(e, date) ==
    IF /\ e.dayTypeCache # NullArray /\ e.dayTypeCacheYear = getFullYear(date)
       /\ date - YearStart(e.dayTypeCacheYear) >= 0
       /\ date - YearStart(e.dayTypeCacheYear) < Len(e.dayTypeCache)
    THEN Only({calculateInsightByIndex(c, date - YearStart(e.dayTypeCacheYear),
                                       getFullYear(date)) :
                  c \in {ensureBookedDaysIndices(e, getFullYear(date))}})
    ELSE InsightByDate(e, date)

\* `${toLocalISOString(date)}-${currentRegion}-${currentWeekendPattern}-${customCount}`
DayInsightKey(e, date) ==
    <<toLocalISOString(date), e.currentRegion, e.currentWeekendPattern,
      Len(getCustomHolidaysForLocation(e.customHolidaysByLocation, e.currentRegion))>>

\* getDayInsight(date): Null for a day that is no workday.
getDayInsight(e, date) ==
    Only({IF type.v # "workday" THEN [v |-> Null, e |-> type.e]
          ELSE IF DayInsightKey(type.e, date) \in DOMAIN type.e.dayInsightCache
          THEN [v |-> type.e.dayInsightCache[DayInsightKey(type.e, date)], e |-> type.e]
          ELSE Only({[v |-> insight.v,
                      e |-> [insight.e EXCEPT
                                !.dayInsightCache =
                                    (DayInsightKey(type.e, date) :> insight.v) @@ @]] :
                        insight \in {ComputeInsight(type.e, date)}}) :
             type \in {getDayType(e, date)}})

\* getLongestBlockDays(plan)
getLongestBlockDays(plan) ==
    IF Len(plan) = 0 THEN 0
    ELSE CHOOSE d \in {plan[n].totalDaysOff : n \in 1..Len(plan)} :
             \A n \in 1..Len(plan) : plan[n].totalDaysOff <= d

\* The entry of yearComparisonCache; deltaPercent > 0.5 and < -0.5 are
\* compared in two-hundredths of previousBest.
YearComparisonEntry(year, currentBest, previousBest) ==
    [currentYear  |-> year,
     previousYear |-> year - 1,
     currentBest  |-> currentBest,
     previousBest |-> previousBest,
     direction    |-> IF previousBest > 0 /\ (currentBest - previousBest) * 200 > previousBest
                      THEN "more"
                      ELSE IF previousBest > 0
                              /\ (currentBest - previousBest) * 200 < -previousBest
                      THEN "less"
                      ELSE "same"]

\* `${year}-${allowance}-${currentRegion}-${currentWeekendPattern}-${customCount}`
YearComparisonKey(e, year, allowance) ==
    <<year, allowance, e.currentRegion, e.currentWeekendPattern,
      Len(getCustomHolidaysForLocation(e.customHolidaysByLocation, e.currentRegion))>>

\* getYearComparison(year, allowance): Null for a dataset location without
\* data for one of the two years.
getYearComparison(e, year, allowance) ==
    IF /\ isDatasetLocation(e.currentRegion)
       /\ \/ e.holidayDataset = NoDataset
          \/ ~hasHolidayDataForYear(e.currentRegion, year, e.holidayDataset)
          \/ ~hasHolidayDataForYear(e.currentRegion, year - 1, e.holidayDataset)
    THEN [v |-> Null, e |-> e]
    ELSE IF YearComparisonKey(e, year, allowance) \in DOMAIN e.yearComparisonCache
    THEN [v |-> e.yearComparisonCache[YearComparisonKey(e, year, allowance)], e |-> e]
    ELSE Only({Only({Only({
        [v |-> entry,
         e |-> [previousPlan.e EXCEPT
                   !.yearComparisonCache =
                       (YearComparisonKey(e, year, allowance) :> entry) @@ @]] :
        entry \in {YearComparisonEntry(year, getLongestBlockDays(currentPlan.v),
                                       getLongestBlockDays(previousPlan.v))}}) :
        previousPlan \in {findOptimalPlan(currentPlan.e, year - 1, allowance)}}) :
        currentPlan \in {findOptimalPlan(e, year, allowance)}})

(* ------------------------------ rendering ----------------------------- *)
(* Of the rendering functions the model keeps the engine calls they make   *)
(* and the click listeners renderCalendar attaches.                        *)

\* The loop "while (current <= endOfYear)" of analyzeCurrentPlan for the days
\* lo .. hi of currentYear: the getDayType call of every day.  (The range is
\* halved to keep the evaluation shallow.)
RECURSIVE AnalyzeDays(_, _, _)
AnalyzeDays(e, lo, hi) ==
    IF lo > hi THEN e
    ELSE IF lo = hi THEN getDayType(e, YearStart(e.currentYear) + lo).e
    ELSE Only({AnalyzeDays(lower, (lo + hi) \div 2 + 1, hi) :
                  lower \in {AnalyzeDays(e, lo, (lo + hi) \div 2)}})

\* analyzeCurrentPlan(): returns at once when nothing is booked.
analyzeCurrentPlan(e) ==
    IF e.bookedDates = {} THEN e
    ELSE AnalyzeDays(e, 0, DaysInYear(e.currentYear) - 1)

\* updateDayNode(el, date): getDayType, getHolidayName and, for a workday,
\* getDayInsight.
updateDayNode(e, date) ==
    Only({Only({IF type.v = "workday" THEN getDayInsight(name.e, date).e ELSE name.e :
        name \in {getHolidayName(type.e, date)}}) :
        type \in {getDayType(e, date)}})

\* The days lo .. hi of currentYear in renderCalendar.  On a full rebuild
\* (rebuild = TRUE) a day that getDayType holds to be a workday gets the
\* toggleDate listener; every day is handed to updateDayNode.  (The range is
\* halved to keep the evaluation shallow.)
RECURSIVE RenderDays(_, _, _, _)
RenderDays(e, lo, hi, rebuild) ==
    IF lo > hi THEN e
    ELSE IF lo = hi
    THEN IF rebuild
         THEN Only({updateDayNode(
                        IF type.v = "workday"
                        THEN [type.e EXCEPT !.toggleDays =
                                 @ \cup {toLocalISOString(YearStart(e.currentYear) + lo)}]
                        ELSE type.e,
                        YearStart(e.currentYear) + lo) :
                       type \in {getDayType(e, YearStart(e.currentYear) + lo)}})
         ELSE updateDayNode(e, YearStart(e.currentYear) + lo)
    ELSE Only({RenderDays(lower, (lo + hi) \div 2 + 1, hi, rebuild) :
                  lower \in {RenderDays(e, lo, (lo + hi) \div 2, rebuild)}})

\* `${currentYear}-${currentRegion}-${currentWeekendPattern}-${customCount}`
RenderKey(e) ==
    <<e.currentYear, e.currentRegion, e.currentWeekendPattern,
      Len(getCustomHolidaysForLocation(e.customHolidaysByLocation, e.currentRegion))>>

\* renderCalendar(): the cells are updated in place when the render key is
\* the one of the calendar on the page (which then has its cells), rebuilt
\* otherwise.
renderCalendar(e) ==
    IF e.renderKey = RenderKey(e)
    THEN RenderDays(e, 0, DaysInYear(e.currentYear) - 1, FALSE)
    ELSE RenderDays([e EXCEPT !.renderKey = RenderKey(e), !.toggleDays = {}],
                    0, DaysInYear(e.currentYear) - 1, TRUE)

\* updateUI(): renderStats, renderRecommendations, renderInsights,
\* renderHolidayDataStatus (no engine call), renderCalendar.  With a weekend
\* pattern that is no preset the first classification of a day of the year
\* ends updateUI in an exception, before the calendar is touched.
updateUI(e) ==
    IF isWeekendThrows(e)
    THEN (IF DayTypeCacheValid(e, e.currentYear) THEN e
          ELSE AbandonedDayTypeCache(e, e.currentYear))
    ELSE
    Only({Only({Only({renderCalendar(insights.e) :
        insights \in {getYearComparison(recommendations, recommendations.currentYear,
                                        recommendations.currentAllowance)}}) :
        recommendations \in {analyzeCurrentPlan(stats)}}) :
        stats \in {analyzeCurrentPlan(e)}})


(* ------------------------------ state --------------------------------- *)

VARIABLES
    currentAllowance,          \* let currentAllowance
    currentYear,               \* let currentYear
    currentRegion,             \* let currentRegion
    currentWeekendPattern,     \* let currentWeekendPattern
    bookedDates,               \* Set of booked date strings
    customHolidaysByLocation,  \* location -> list of custom holidays
    weekendByLocation,         \* location -> weekend pattern key
    holidayDataset,            \* the loaded dataset, NoDataset for null
    holidayDatasetPromise,     \* "none" (null), "pending" or "settled"
    holidaysCache,             \* Map key -> resolved holiday list
    holidayDataWarnings,       \* Set of <<location, year>> already warned about
    hasDocument,               \* typeof document !== 'undefined'
    dayTypeCache,              \* the DayTypeIndex, NullArray for null
    dayTypeCacheYear,
    dayTypeCacheRegion,
    dayTypeCacheWeekend,
    dayTypeCacheCustomCount,   \* -1 for null
    dayInsightCache,           \* Map key -> insight
    yearComparisonCache,       \* Map key -> comparison
    bookedDaysIndices,         \* Uint8Array of booked days, NullArray for null
    bookedDaysYear,
    renderKey,                 \* data-render-key of the calendar on the page, << >> for none
    toggleDays,                \* the days whose cell has the toggleDate listener
    resetTimers,               \* setTimeout callbacks of resetToOptimal pending
    loadingShown,              \* the loading overlay is displayed
    resetsAwaiting,            \* resetToOptimal calls awaiting the dataset promise
    planLog,                   \* every plan findOptimalPlan has returned, with its inputs
    lastCall,                  \* the last step: the operation, its arguments and result
    stepsLeft                  \* number of user events and direct calls still to come

vars == <<currentAllowance, currentYear, currentRegion, currentWeekendPattern, bookedDates,
          customHolidaysByLocation, weekendByLocation, holidayDataset,
          holidayDatasetPromise, holidaysCache, holidayDataWarnings, hasDocument,
          dayTypeCache, dayTypeCacheYear,
          dayTypeCacheRegion, dayTypeCacheWeekend, dayTypeCacheCustomCount,
          dayInsightCache, yearComparisonCache, bookedDaysIndices, bookedDaysYear,
          renderKey, toggleDays, resetTimers, loadingShown, resetsAwaiting, planLog, lastCall,
          stepsLeft>>

\* The variables of the program as one record, for the operators above.
Env ==
    [currentAllowance |-> currentAllowance,
     currentYear |-> currentYear,
     currentRegion |-> currentRegion,
     currentWeekendPattern |-> currentWeekendPattern,
     bookedDates |-> bookedDates,
     customHolidaysByLocation |-> customHolidaysByLocation,
     weekendByLocation |-> weekendByLocation,
     holidayDataset |-> holidayDataset,
     holidayDatasetPromise |-> holidayDatasetPromise,
     holidaysCache |-> holidaysCache,
     holidayDataWarnings |-> holidayDataWarnings,
     hasDocument |-> hasDocument,
     dayTypeCache |-> dayTypeCache,
     dayTypeCacheYear |-> dayTypeCacheYear,
     dayTypeCacheRegion |-> dayTypeCacheRegion,
     dayTypeCacheWeekend |-> dayTypeCacheWeekend,
     dayTypeCacheCustomCount |-> dayTypeCacheCustomCount,
     dayInsightCache |-> dayInsightCache,
     yearComparisonCache |-> yearComparisonCache,
     bookedDaysIndices |-> bookedDaysIndices,
     bookedDaysYear |-> bookedDaysYear,
     renderKey |-> renderKey,
     toggleDays |-> toggleDays,
     resetTimers |-> resetTimers,
     loadingShown |-> loadingShown,
     resetsAwaiting |-> resetsAwaiting,
     planLog |-> planLog]

\* The variables after a step that left the program in e.
Store(e) ==
    /\ currentAllowance' = e.currentAllowance
    /\ currentYear' = e.currentYear
    /\ currentRegion' = e.currentRegion
    /\ currentWeekendPattern' = e.currentWeekendPattern
    /\ bookedDates' = e.bookedDates
    /\ customHolidaysByLocation' = e.customHolidaysByLocation
    /\ weekendByLocation' = e.weekendByLocation
    /\ holidayDataset' = e.holidayDataset
    /\ holidayDatasetPromise' = e.holidayDatasetPromise
    /\ holidaysCache' = e.holidaysCache
    /\ holidayDataWarnings' = e.holidayDataWarnings
    /\ hasDocument' = e.hasDocument
    /\ dayTypeCache' = e.dayTypeCache
    /\ dayTypeCacheYear' = e.dayTypeCacheYear
    /\ dayTypeCacheRegion' = e.dayTypeCacheRegion
    /\ dayTypeCacheWeekend' = e.dayTypeCacheWeekend
    /\ dayTypeCacheCustomCount' = e.dayTypeCacheCustomCount
    /\ dayInsightCache' = e.dayInsightCache
    /\ yearComparisonCache' = e.yearComparisonCache
    /\ bookedDaysIndices' = e.bookedDaysIndices
    /\ bookedDaysYear' = e.bookedDaysYear
    /\ renderKey' = e.renderKey
    /\ toggleDays' = e.toggleDays
    /\ resetTimers' = e.resetTimers
    /\ loadingShown' = e.loadingShown
    /\ resetsAwaiting' = e.resetsAwaiting
    /\ planLog' = e.planLog

\* No step taken yet.
NoCall == [op |-> "none"]

\* The years of the year selector: currentYearNow and the years after it.
Years == (BaseYear + 1)..(BaseYear + NumYears)

\* The module-level declarations' initial values, currentYear being
\* new Date().getFullYear(), in a page or a test environment with a document.
Loaded ==
    [currentAllowance |-> DefaultAllowance,
     currentYear |-> BaseYear + 1,
     currentRegion |-> "england-wales",
     currentWeekendPattern |-> LOCATION_CONFIG["england-wales"].defaultWeekend,
     bookedDates |-> {},
     customHolidaysByLocation |-> EmptyMap,
     weekendByLocation |-> EmptyMap,
     holidayDataset |-> NoDataset,
     holidayDatasetPromise |-> "none",
     holidaysCache |-> EmptyMap,
     holidayDataWarnings |-> {},
     hasDocument |-> TRUE,
     dayTypeCache |-> NullArray,
     dayTypeCacheYear |-> Null,
     dayTypeCacheRegion |-> Null,
     dayTypeCacheWeekend |-> Null,
     dayTypeCacheCustomCount |-> -1,
     dayInsightCache |-> EmptyMap,
     yearComparisonCache |-> EmptyMap,
     bookedDaysIndices |-> NullArray,
     bookedDaysYear |-> Null,
     renderKey |-> << >>,
     toggleDays |-> {},
     resetTimers |-> 0,
     loadingShown |-> FALSE,
     resetsAwaiting |-> 0,
     planLog |-> {}]

\* The variables hold the program state e and no step has been taken.
StartsAs(e) ==
    /\ currentAllowance = e.currentAllowance
    /\ currentYear = e.currentYear
    /\ currentRegion = e.currentRegion
    /\ currentWeekendPattern = e.currentWeekendPattern
    /\ bookedDates = e.bookedDates
    /\ customHolidaysByLocation = e.customHolidaysByLocation
    /\ weekendByLocation = e.weekendByLocation
    /\ holidayDataset = e.holidayDataset
    /\ holidayDatasetPromise = e.holidayDatasetPromise
    /\ holidaysCache = e.holidaysCache
    /\ holidayDataWarnings = e.holidayDataWarnings
    /\ hasDocument = e.hasDocument
    /\ dayTypeCache = e.dayTypeCache
    /\ dayTypeCacheYear = e.dayTypeCacheYear
    /\ dayTypeCacheRegion = e.dayTypeCacheRegion
    /\ dayTypeCacheWeekend = e.dayTypeCacheWeekend
    /\ dayTypeCacheCustomCount = e.dayTypeCacheCustomCount
    /\ dayInsightCache = e.dayInsightCache
    /\ yearComparisonCache = e.yearComparisonCache
    /\ bookedDaysIndices = e.bookedDaysIndices
    /\ bookedDaysYear = e.bookedDaysYear
    /\ renderKey = e.renderKey
    /\ toggleDays = e.toggleDays
    /\ resetTimers = e.resetTimers
    /\ loadingShown = e.loadingShown
    /\ resetsAwaiting = e.resetsAwaiting
    /\ planLog = e.planLog
    /\ lastCall = NoCall

(* --------------------------- event handlers --------------------------- *)

\* ensureCustomHolidays(location)
ensureCustomHolidays(e, location) ==
    IF location \in DOMAIN e.customHolidaysByLocation THEN e
    ELSE [e EXCEPT !.customHolidaysByLocation = (location :> << >>) @@ @]

\* loadHolidayDataset(): the fetch is started unless a promise exists.
loadHolidayDataset(e) ==
    IF e.holidayDatasetPromise # "none" THEN e
    ELSE [e EXCEPT !.holidayDatasetPromise = "pending"]

\* if (isDatasetLocation(currentRegion)) loadHolidayDataset()
loadIfDatasetLocation(e) ==
    IF isDatasetLocation(e.currentRegion) THEN loadHolidayDataset(e) ELSE e

\* resetToOptimal() up to its setTimeout: the call awaits the dataset promise
\* when the region is a dataset location without a dataset, and sets the
\* timer otherwise.
resetToOptimal(e) ==
    IF /\ isDatasetLocation(e.currentRegion) /\ e.holidayDataset = NoDataset
       /\ loadHolidayDataset(e).holidayDatasetPromise = "pending"
    THEN [loadHolidayDataset(e) EXCEPT !.resetsAwaiting = @ + 1, !.loadingShown = TRUE]
    ELSE [e EXCEPT !.resetTimers = @ + 1, !.loadingShown = TRUE]

\* The 'change' listener of the year selector.
onYearChange(e, value) ==
    resetToOptimal(invalidateInsightCaches(
        loadIfDatasetLocation([e EXCEPT !.currentYear = value])))

\* currentRegion, currentWeekendPattern and weekendByLocation as the 'change'
\* listener of the location selector sets them.
SetLocation(e, region) ==
    [ensureCustomHolidays(e, region) EXCEPT
        !.currentRegion = region,
        !.currentWeekendPattern =
            IF region \in DOMAIN e.weekendByLocation THEN e.weekendByLocation[region]
            ELSE LOCATION_CONFIG[region].defaultWeekend,
        !.weekendByLocation =
            (region :> (IF region \in DOMAIN e.weekendByLocation
                        THEN e.weekendByLocation[region]
                        ELSE LOCATION_CONFIG[region].defaultWeekend)) @@ @]

\* The 'change' listener of the location selector.
onLocationChange(e, value) ==
    resetToOptimal(invalidateInsightCaches(holidaysCacheClear(
        loadIfDatasetLocation(
            SetLocation(e, IF HasKey(LOCATION_CONFIG, value) THEN value
                           ELSE "england-wales")))))

\* The 'change' listener of the weekend selector.
onWeekendChange(e, value) ==
    IF HasKey(WEEKEND_PRESETS, value)
    THEN resetToOptimal(invalidateInsightCaches(
             [e EXCEPT !.currentWeekendPattern = value,
                       !.weekendByLocation = (e.currentRegion :> value) @@ @]))
    ELSE e

\* if (val > 0 && val <= 365)
AllowanceLimit == 365

\* The 'change' listener of the allowance input.
onAllowanceChange(e, val) ==
    IF val > 0 /\ val <= AllowanceLimit
    THEN resetToOptimal(invalidateInsightCaches([e EXCEPT !.currentAllowance = val]))
    ELSE e

\* addCustomHoliday() with the date and the name of the two inputs.
addCustomHoliday(e, dateVal, nameVal) ==
    IF HasDate(getCustomHolidaysForLocation(e.customHolidaysByLocation, e.currentRegion),
               dateVal)
    THEN ensureCustomHolidays(e, e.currentRegion)
    ELSE resetToOptimal(invalidateInsightCaches(holidaysCacheClear(
             [e EXCEPT !.customHolidaysByLocation =
                 (e.currentRegion :>
                     Append(getCustomHolidaysForLocation(e.customHolidaysByLocation,
                                                         e.currentRegion),
                            [date |-> dateVal, name |-> nameVal])) @@ @])))

\* customHolidays.filter(h => h.date !== dateStr)
RECURSIVE WithoutDate(_, _)
WithoutDate(customHolidays, dateStr) ==
    IF customHolidays = << >> THEN << >>
    ELSE (IF Head(customHolidays).date # dateStr THEN <<Head(customHolidays)>> ELSE << >>)
         \o WithoutDate(Tail(customHolidays), dateStr)

\* removeCustomHoliday(dateStr)
removeCustomHoliday(e, dateStr) ==
    resetToOptimal(invalidateInsightCaches(holidaysCacheClear(
        [e EXCEPT !.customHolidaysByLocation =
            (e.currentRegion :>
                WithoutDate(getCustomHolidaysForLocation(e.customHolidaysByLocation,
                                                         e.currentRegion),
                            dateStr)) @@ @])))

\* Faulty variant: the booked set is changed and the caches are kept.
ToggleKeepingCaches(e, dateStr) ==
    updateUI([e EXCEPT !.bookedDates =
                 IF dateStr \in @ THEN @ \ {dateStr} ELSE @ \cup {dateStr}])

\* toggleDate of the cell of dateStr.
toggleDate(e, dateStr) ==
    updateUI(invalidateInsightCaches(
        [e EXCEPT !.bookedDates = IF dateStr \in @ THEN @ \ {dateStr} ELSE @ \cup {dateStr}]))

\* Faulty variant: the booked days of the first block only, a partial plan.
FirstBlockOnly(blocks) ==
    IF Len(blocks) = 0 THEN {}
    ELSE {toLocalISOString(blocks[1].bookedDates[i]) : i \in 1..Len(blocks[1].bookedDates)}

\* The booked set the timer callback of resetToOptimal builds from the blocks.
BookedDatesOfPlan(blocks) ==
    UNION {{toLocalISOString(blocks[n].bookedDates[i]) :
                i \in 1..Len(blocks[n].bookedDates)} : n \in 1..Len(blocks)}

\* Faulty variant: the plan's days are added to the bookings there are.
ResetKeepingBookings(e) ==
    Only({[v |-> blocks.v,
           threw |-> blocks.threw,
           e |-> IF blocks.threw THEN blocks.e
                 ELSE updateUI(invalidateInsightCaches(
                          [blocks.e EXCEPT !.bookedDates = @ \cup BookedDatesOfPlan(blocks.v)]))] :
             blocks \in {findOptimalPlan([e EXCEPT !.resetTimers = @ - 1,
                                                   !.loadingShown = FALSE],
                                         e.currentYear, e.currentAllowance)}})

\* The timer callback of resetToOptimal; an exception of findOptimalPlan
\* leaves the booked set as it is, and hideLoading() runs in either case
\* (finally).
resetTimerCallback(e) ==
    Only({[v |-> blocks.v,
           threw |-> blocks.threw,
           e |-> IF blocks.threw THEN blocks.e
                 ELSE updateUI(invalidateInsightCaches(
                          [blocks.e EXCEPT !.bookedDates = BookedDatesOfPlan(blocks.v)]))] :
             blocks \in {findOptimalPlan([e EXCEPT !.resetTimers = @ - 1,
                                                   !.loadingShown = FALSE],
                                         e.currentYear, e.currentAllowance)}})

\* The promise of loadHolidayDataset settles with the dataset data (NoDataset:
\* the fetch failed and localStorage holds no copy); the resetToOptimal calls
\* that await it go on to their setTimeout.
settleHolidayDataset(e, data) ==
    [(IF data # NoDataset
      THEN invalidateInsightCaches(holidaysCacheClear([e EXCEPT !.holidayDataset = data]))
      ELSE e) EXCEPT
        !.holidayDatasetPromise = "settled",
        !.resetTimers = @ + e.resetsAwaiting,
        !.resetsAwaiting = 0]

\* init() from the declarations' values with nothing saved and no shared
\* plan: the year and the region are in range, and resetToOptimal() is called.
init(e) == resetToOptimal(loadIfDatasetLocation(ensureCustomHolidays(e, e.currentRegion)))

\* setTestState(year, region, holidays, booked, weekendPattern); holidays
\* << >> stands for no list.
setTestState(e, year, region, holidays, booked, weekendPattern) ==
    invalidateInsightCaches(holidaysCacheClear(
        [e EXCEPT
            !.currentYear = year,
            !.currentRegion = region,
            !.customHolidaysByLocation =
                IF holidays # << >> THEN (region :> holidays) ELSE EmptyMap,
            !.currentWeekendPattern =
                IF HasKey(WEEKEND_PRESETS, weekendPattern) THEN weekendPattern
                ELSE IF HasKey(LOCATION_CONFIG, region)
                THEN LOCATION_CONFIG[region].defaultWeekend
                ELSE "sat-sun",
            !.weekendByLocation =
                (region :> (IF HasKey(WEEKEND_PRESETS, weekendPattern) THEN weekendPattern
                            ELSE IF HasKey(LOCATION_CONFIG, region)
                            THEN LOCATION_CONFIG[region].defaultWeekend
                            ELSE "sat-sun")),
            !.bookedDates = booked]))

\* setHolidayDatasetForTests(dataset)
setHolidayDatasetForTests(e, dataset) ==
    invalidateInsightCaches(holidaysCacheClear([e EXCEPT !.holidayDataset = dataset]))

(* ------------------ the page opened on a kept plan --------------------- *)

\* The value null of loadState() and of decodePlanString().
NoSavedState == [kind |-> "none"]

\* if (!appliedSharedPlan && savedState) { ... } of init(): the saved values
\* replace the declarations' ones; a saved region outside REGIONS and a saved
\* weekend pattern for which WEEKEND_PRESETS[pattern] is falsy are not taken.
restoreSavedState(e, savedState) ==
    Only({[e EXCEPT
              !.currentAllowance = savedState.currentAllowance,
              !.currentYear = savedState.currentYear,
              !.currentRegion = region,
              !.bookedDates = savedState.bookedDates,
              !.customHolidaysByLocation = savedState.customHolidaysByLocation,
              !.currentWeekendPattern =
                  IF HasKey(WEEKEND_PRESETS, savedState.currentWeekendPattern)
                  THEN savedState.currentWeekendPattern
                  ELSE LOCATION_CONFIG[region].defaultWeekend,
              !.weekendByLocation =
                  (region :> (IF HasKey(WEEKEND_PRESETS, savedState.currentWeekendPattern)
                              THEN savedState.currentWeekendPattern
                              ELSE LOCATION_CONFIG[region].defaultWeekend))] :
             region \in {IF savedState.currentRegion \in REGIONS
                         THEN savedState.currentRegion ELSE e.currentRegion}})

\* applySharedPlanFromUrl() with the decoded plan of the URL: the plan
\* replaces the state and the caches are cleared.
applySharedPlanFromUrl(e, decoded) ==
    Only({invalidateInsightCaches(holidaysCacheClear(
              [e EXCEPT
                  !.currentAllowance = decoded.currentAllowance,
                  !.currentYear = decoded.currentYear,
                  !.currentRegion = region,
                  !.currentWeekendPattern =
                      IF HasKey(WEEKEND_PRESETS, decoded.currentWeekendPattern)
                      THEN decoded.currentWeekendPattern
                      ELSE LOCATION_CONFIG[region].defaultWeekend,
                  !.weekendByLocation =
                      (region :> (IF HasKey(WEEKEND_PRESETS, decoded.currentWeekendPattern)
                                  THEN decoded.currentWeekendPattern
                                  ELSE LOCATION_CONFIG[region].defaultWeekend)),
                  !.bookedDates = decoded.bookedDates,
                  !.customHolidaysByLocation = decoded.customHolidaysByLocation])) :
             region \in {IF decoded.currentRegion \in REGIONS
                         THEN decoded.currentRegion ELSE "england-wales"}})

\* if (currentYear < minYear || currentYear > maxYear) currentYear = minYear
ClampYear(e) ==
    IF e.currentYear \in Years THEN e ELSE [e EXCEPT !.currentYear = BaseYear + 1]

\* init() with a saved state or a shared plan: a plan of the URL comes before
\* the saved state; the kept bookings are shown (updateUI) when there are
\* any, and resetToOptimal() is called otherwise.
initRestored(e, savedState, decoded) ==
    Only({IF restored.bookedDates # {} /\ (decoded.kind # "none" \/ savedState.kind # "none")
          THEN updateUI(loadIfDatasetLocation(
                   ensureCustomHolidays(ClampYear(restored), restored.currentRegion)))
          ELSE resetToOptimal(loadIfDatasetLocation(
                   ensureCustomHolidays(ClampYear(restored), restored.currentRegion))) :
             restored \in {IF decoded.kind # "none" THEN applySharedPlanFromUrl(e, decoded)
                           ELSE IF savedState.kind # "none"
                           THEN restoreSavedState(e, savedState)
                           ELSE e}})

(* ----------------------------- the steps ------------------------------ *)

\* Number of user events and direct calls of a behaviour of the page.
MaxSteps == 2

\* The values the selectors, the inputs and the direct calls are given.
Locations == {"scotland", "qatar"}
WeekendValues == {"fri-sat", "mon-tue"}
AllowanceValues == {0, DefaultAllowance - 1}
CustomDates == {<<BaseYear + 1, 1, 4>>, <<BaseYear + 1, 12, 30>>}
ToggleDates == {<<BaseYear + 1, 1, 5>>, <<BaseYear + 2, 1, 2>>}
ProbeDates == {DateOf(BaseYear + 1, 1, 4), DateOf(BaseYear + 1, 12, 31),
               DateOf(BaseYear + 2, 1, 2)}
InsightDates == {DateOf(BaseYear + 1, 1, 5), DateOf(BaseYear + 2, 1, 2)}

\* A step of the program that leaves it in e: call says what the step was.
Step(e, call) ==
    /\ Store(e)
    /\ lastCall' = call
    /\ stepsLeft' = stepsLeft - 1

YearChange(value) ==
    /\ stepsLeft > 0
    /\ \E e \in {onYearChange(Env, value)} : Step(e, [op |-> "yearChange", value |-> value])

LocationChange(value) ==
    /\ stepsLeft > 0
    /\ \E e \in {onLocationChange(Env, value)} : Step(e, [op |-> "locationChange", value |-> value])

WeekendChange(value) ==
    /\ stepsLeft > 0
    /\ \E e \in {onWeekendChange(Env, value)} : Step(e, [op |-> "weekendChange", value |-> value])

AllowanceChange(val) ==
    /\ stepsLeft > 0
    /\ \E e \in {onAllowanceChange(Env, val)} : Step(e, [op |-> "allowanceChange", val |-> val])

AddCustomHoliday(dateVal) ==
    /\ stepsLeft > 0
    /\ \E e \in {addCustomHoliday(Env, dateVal, "Custom")} : Step(e,
            [op |-> "addCustomHoliday", dateVal |-> dateVal,
             added |-> ~HasDate(getCustomHolidaysForLocation(customHolidaysByLocation,
                                                             currentRegion), dateVal)])

\* The remove button of an entry of the custom holiday list.
RemoveCustomHoliday(dateStr) ==
    /\ stepsLeft > 0
    /\ HasDate(getCustomHolidaysForLocation(customHolidaysByLocation, currentRegion), dateStr)
    /\ \E e \in {removeCustomHoliday(Env, dateStr)} : Step(e,
            [op |-> "removeCustomHoliday", dateStr |-> dateStr])

\* The 'click' listener of the reset button.
ResetClick ==
    /\ stepsLeft > 0
    /\ \E e \in {resetToOptimal(Env)} : Step(e, [op |-> "resetClick"])

\* A click on a calendar cell that has the toggleDate listener.
ToggleDate(dateStr) ==
    /\ stepsLeft > 0
    /\ dateStr \in toggleDays
    /\ \E e \in {toggleDate(Env, dateStr)} : Step(e,
            [op |-> "toggleDate", dateStr |-> dateStr,
             wasBooked |-> dateStr \in bookedDates,
             insightsBefore |-> dayInsightCache])

\* A timer of resetToOptimal fires.
ResetTimerFires ==
    /\ resetTimers > 0
    /\ \E r \in {resetTimerCallback(Env)} :
           /\ Store(r.e)
           /\ lastCall' = [op |-> "resetTimer", year |-> currentYear,
                           allowance |-> currentAllowance, threw |-> r.threw,
                           blocks |-> r.v, bookedBefore |-> bookedDates]
           /\ stepsLeft' = stepsLeft

\* The fetch of the dataset ends: with a dataset, or with none.
DatasetSettles(data) ==
    /\ holidayDatasetPromise = "pending"
    /\ \E e \in {settleHolidayDataset(Env, data)} :
           /\ Store(e)
           /\ lastCall' = [op |-> "datasetSettles", data |-> data]
           /\ stepsLeft' = stepsLeft

\* A direct call getDayType(date).
GetDayType(date) ==
    /\ stepsLeft > 0
    /\ \E r \in {getDayType(Env, date)} :
           Step(r.e, [op |-> "getDayType", date |-> date, type |-> r.v,
                      indexYear |-> IF dayTypeCache = NullArray THEN 0
                                    ELSE dayTypeCacheYear])

\* A direct call getDayInsight(date).
GetDayInsight(date) ==
    /\ stepsLeft > 0
    /\ \E r \in {getDayInsight(Env, date)} :
           Step(r.e, [op |-> "getDayInsight", date |-> date, insight |-> r.v])

\* A direct call getYearComparison(year, allowance).
GetYearComparison(year, allowance) ==
    /\ stepsLeft > 0
    /\ \E r \in {getYearComparison(Env, year, allowance)} :
           Step(r.e, [op |-> "getYearComparison", year |-> year,
                      allowance |-> allowance, comparison |-> r.v])

\* A direct call findOptimalPlan(year, allowance).
FindOptimalPlan(year, allowance) ==
    /\ stepsLeft > 0
    /\ \E r \in {findOptimalPlan(Env, year, allowance)} :
           Step(r.e, [op |-> "findOptimalPlan", year |-> year, allowance |-> allowance,
                      threw |-> r.threw, blocks |-> r.v,
                      candidates |-> r.candidates, pool |-> r.pool])

\* A direct call calculateContinuousLeave(startDate, leaveDaysToUse, bookedSet).
CalculateContinuousLeave(startDate, leaveDaysToUse, bookedSet) ==
    /\ stepsLeft > 0
    /\ \E r \in {calculateContinuousLeave(Env, startDate, leaveDaysToUse, bookedSet)} :
           Step(r.e, [op |-> "calculateContinuousLeave", startDate |-> startDate,
                      leaveDaysToUse |-> leaveDaysToUse, bookedSet |-> bookedSet,
                      block |-> r.v])

\* A direct call findBestCombination(candidates, allowance).
FindBestCombination(candidates, allowance) ==
    /\ stepsLeft > 0
    /\ \E r \in {findBestCombination(candidates, allowance)} :
           Step(Env, [op |-> "findBestCombination", candidates |-> candidates,
                      allowance |-> allowance, threw |-> r.threw, combo |-> r.combo])

(* ------------------------- the page, all events ------------------------ *)

\* The page after init() with nothing saved.
Init == StartsAs(init(Loaded)) /\ stepsLeft = MaxSteps

Next ==
    \/ \E value \in Years : YearChange(value)
    \/ \E value \in Locations : LocationChange(value)
    \/ \E value \in WeekendValues : WeekendChange(value)
    \/ \E val \in AllowanceValues : AllowanceChange(val)
    \/ \E dateVal \in CustomDates : AddCustomHoliday(dateVal)
    \/ \E dateStr \in CustomDates : RemoveCustomHoliday(dateStr)
    \/ ResetClick
    \/ \E dateStr \in ToggleDates : ToggleDate(dateStr)
    \/ ResetTimerFires
    \/ \E data \in DOMAIN HolidayDatasets \cup {NoDataset} : DatasetSettles(data)
    \/ \E date \in ProbeDates : GetDayType(date)
    \/ \E date \in InsightDates : GetDayInsight(date)
    \/ \E year \in Years, allowance \in {DefaultAllowance} : GetYearComparison(year, allowance)
    \/ \E year \in Years, allowance \in {DefaultAllowance} : FindOptimalPlan(year, allowance)

Spec == Init /\ [][Next]_vars

(* ------------------ the engine called on a given state ----------------- *)

\* The state the tests give the engine, and the arguments of their calls.
PlanRegions == {"england-wales", "scotland", "qatar"}
PlanWeekends == {"sat-sun", "fri-sat"}
PlanHolidays == {<< >>, <<[date |-> <<BaseYear + 1, 1, 4>>, name |-> "Custom"]>>}
PlanAllowances == (-1)..MaxAllowance
LeaveDays == 0..2
BookedSets == {{}, {<<BaseYear + 1, 1, 5>>}, {<<BaseYear + 1, 12, 30>>, <<BaseYear + 2, 1, 2>>}}

\* The engine after setTestState and setHolidayDatasetForTests.
InitPlan ==
    /\ \E year \in Years, region \in PlanRegions, weekendPattern \in PlanWeekends,
          holidays \in PlanHolidays, dataset \in DOMAIN HolidayDatasets \cup {NoDataset} :
           /\ dataset = NoDataset \/ isDatasetLocation(region)
           /\ StartsAs(setHolidayDatasetForTests(
                           setTestState(Loaded, year, region, holidays, {}, weekendPattern),
                           dataset))
    /\ stepsLeft = 1

NextPlan ==
    \/ \E year \in Years, allowance \in PlanAllowances : FindOptimalPlan(year, allowance)
    \/ \E startDate \in ProbeDates, leaveDaysToUse \in LeaveDays, bookedSet \in BookedSets :
           CalculateContinuousLeave(startDate, leaveDaysToUse, bookedSet)

SpecPlan == InitPlan /\ [][NextPlan]_vars

(* ----------------------- the solver on given pools --------------------- *)

\* Candidates for the pools handed to the solver.
CandidateFamily ==
    << [startIdx |-> 0,  endIdx |-> 3,  leaveDaysUsed |-> 1, totalDaysOff |-> 4],
       [startIdx |-> 4,  endIdx |-> 7,  leaveDaysUsed |-> 1, totalDaysOff |-> 4],
       [startIdx |-> 8,  endIdx |-> 11, leaveDaysUsed |-> 1, totalDaysOff |-> 4],
       [startIdx |-> 12, endIdx |-> 15, leaveDaysUsed |-> 1, totalDaysOff |-> 4],
       [startIdx |-> 0,  endIdx |-> 8,  leaveDaysUsed |-> 2, totalDaysOff |-> 9],
       [startIdx |-> 9,  endIdx |-> 15, leaveDaysUsed |-> 2, totalDaysOff |-> 7] >>

\* The candidates of the family with the numbers in S, in the family's order.
FamilyList(S) ==
    SubSeq([k \in 1..Cardinality(S) |-> CandidateFamily[Ascending(S)[k]]],
           1, Cardinality(S))

\* The pools: what selectTopCandidates makes of a list of candidates.
Pools == {selectTopCandidates(FamilyList(S)) : S \in SUBSET (1..Len(CandidateFamily))}

SolverAllowances == (-2)..MaxAllowance

InitSolver == StartsAs(Loaded) /\ stepsLeft = 1

NextSolver ==
    \E candidates \in Pools, allowance \in SolverAllowances :
        FindBestCombination(candidates, allowance)

SpecSolver == InitSolver /\ [][NextSolver]_vars

(* ----------------- the page, custom holidays and dataset --------------- *)

\* Number of user events of a behaviour of the page that changes the custom
\* holidays and the location only.
MaxCustomSteps == 3

InitCustoms == StartsAs(init(Loaded)) /\ stepsLeft = MaxCustomSteps

NextCustoms ==
    \/ \E dateVal \in CustomDates : AddCustomHoliday(dateVal)
    \/ \E dateStr \in CustomDates : RemoveCustomHoliday(dateStr)
    \/ \E value \in {"qatar"} : LocationChange(value)
    \/ ResetTimerFires
    \/ \E data \in DOMAIN HolidayDatasets \cup {NoDataset} : DatasetSettles(data)

SpecCustoms == InitCustoms /\ [][NextCustoms]_vars

(* ------------------- the page opened on a kept plan -------------------- *)

\* Number of user events and direct calls of a behaviour of a page opened on
\* saved bookings.
MaxSavedSteps == 2

\* What localStorage holds when the page is opened: nothing, or a state that
\* saveState() has written.
SavedStates ==
    {NoSavedState,
     [kind |-> "saved", currentAllowance |-> DefaultAllowance, currentYear |-> BaseYear + 1,
      currentRegion |-> "england-wales", currentWeekendPattern |-> "sat-sun",
      bookedDates |-> {<<BaseYear + 1, 1, 2>>, <<BaseYear + 1, 1, 4>>},
      customHolidaysByLocation |-> ("england-wales" :> << >>)],
     [kind |-> "saved", currentAllowance |-> DefaultAllowance, currentYear |-> BaseYear + 1,
      currentRegion |-> "england-wales", currentWeekendPattern |-> "sat-sun",
      bookedDates |-> {<<BaseYear + 1, 12, 30>>},
      customHolidaysByLocation |-> ("england-wales" :> << >>)],
     [kind |-> "saved", currentAllowance |-> DefaultAllowance, currentYear |-> BaseYear + 1,
      currentRegion |-> "qatar", currentWeekendPattern |-> "fri-sat",
      bookedDates |-> {<<BaseYear + 1, 1, 2>>},
      customHolidaysByLocation |-> ("qatar" :> << >>)]}

\* What the plan parameter of the URL decodes to: nothing, or a shared plan.
SharedPlans ==
    {NoSavedState,
     [kind |-> "shared", currentAllowance |-> 1, currentYear |-> BaseYear + 2,
      currentRegion |-> "scotland", currentWeekendPattern |-> "sat-sun",
      bookedDates |-> {<<BaseYear + 2, 1, 6>>, <<BaseYear + 2, 1, 8>>},
      customHolidaysByLocation |->
          ("scotland" :> <<[date |-> <<BaseYear + 2, 1, 7>>, name |-> "Custom"]>>)]}

\* The cells clicked and the days asked for on such a page.
SavedToggleDates ==
    {<<BaseYear + 1, 1, 3>>, <<BaseYear + 1, 1, 4>>, <<BaseYear + 1, 12, 30>>,
     <<BaseYear + 2, 1, 8>>}
SavedInsightDates ==
    {DateOf(BaseYear + 1, 1, 3), DateOf(BaseYear + 1, 12, 31), DateOf(BaseYear + 2, 1, 7)}

InitSaved ==
    /\ \E savedState \in SavedStates, decoded \in SharedPlans :
           StartsAs(initRestored(Loaded, savedState, decoded))
    /\ stepsLeft = MaxSavedSteps

NextSaved ==
    \/ \E dateStr \in SavedToggleDates : ToggleDate(dateStr)
    \/ ResetClick
    \/ ResetTimerFires
    \/ \E data \in DOMAIN HolidayDatasets \cup {NoDataset} : DatasetSettles(data)
    \/ \E date \in SavedInsightDates : GetDayInsight(date)
    \/ \E year \in Years, allowance \in {DefaultAllowance} : FindOptimalPlan(year, allowance)
    \/ \E year \in Years, allowance \in {DefaultAllowance} : GetYearComparison(year, allowance)

SpecSaved == InitSaved /\ [][NextSaved]_vars

(* --------------------- day insight on given bookings ------------------- *)

\* The booked sets and the days of the direct calls of getDayInsight.
BookableDates ==
    {<<BaseYear + 1, 1, 2>>, <<BaseYear + 1, 1, 4>>, <<BaseYear + 1, 12, 30>>,
     <<BaseYear + 1, 12, 31>>, <<BaseYear + 2, 1, 2>>}
BridgeDays ==
    {DateOf(BaseYear + 1, 1, 2), DateOf(BaseYear + 1, 1, 3), DateOf(BaseYear + 1, 1, 5),
     DateOf(BaseYear + 1, 12, 30), DateOf(BaseYear + 1, 12, 31),
     DateOf(BaseYear + 2, 1, 1), DateOf(BaseYear + 2, 1, 2)}

\* The engine after setTestState with a booked set, two direct calls to come.
InitInsight ==
    /\ \E year \in Years, region \in {"england-wales", "qatar"},
          booked \in SUBSET BookableDates :
           StartsAs(setTestState(Loaded, year, region, << >>, booked, "default"))
    /\ stepsLeft = 2

NextInsight ==
    \E date \in BridgeDays : GetDayInsight(date)

SpecInsight == InitInsight /\ [][NextInsight]_vars

(* ------------------- holiday resolution on a given state --------------- *)

\* The years a holiday list is asked for: every weekday of 1 January and of
\* 25 December occurs among them.
HolidayYears == YearRange

\* Custom holiday lists: none, one on an ordinary day, ones whose dates are
\* those of regional holidays (rule-based and from the datasets), and one
\* that names a date twice.
HolidayCustomLists ==
    {<< >>,
     <<[date |-> <<BaseYear + 1, 1, 5>>, name |-> "Custom"]>>,
     <<[date |-> <<BaseYear + 1, 1, 3>>, name |-> "Custom"],
       [date |-> <<BaseYear + 1, 12, 25>>, name |-> "Custom"]>>,
     <<[date |-> <<BaseYear + 1, 1, 2>>, name |-> "Custom"],
       [date |-> <<BaseYear + 1, 1, 1>>, name |-> "Custom"]>>,
     <<[date |-> <<BaseYear + 1, 1, 5>>, name |-> "Custom"],
       [date |-> <<BaseYear + 1, 1, 5>>, name |-> "Other"]>>}

\* The dates whose holiday name is asked for.
HolidayNameDates ==
    {DateOf(BaseYear + 1, 1, 1), DateOf(BaseYear + 1, 1, 2), DateOf(BaseYear + 1, 1, 3),
     DateOf(BaseYear + 1, 1, 5), DateOf(BaseYear + 1, 12, 25), DateOf(BaseYear - 1, 12, 27)}

\* A call getHolidaysForYear(year, region), as getHolidayName and isHoliday
\* make it.
GetHolidaysForYear(year, region) ==
    /\ stepsLeft > 0
    /\ \E r \in {getHolidaysForYear(Env, year, region)} :
           Step(r.e, [op |-> "getHolidaysForYear", year |-> year, region |-> region,
                      threw |-> r.threw, holidays |-> r.v])

\* A direct call getUKHolidays(year, region).
GetUKHolidays(year, region) ==
    /\ stepsLeft > 0
    /\ Step(Env, [op |-> "getUKHolidays", year |-> year, region |-> region,
                  holidays |-> getUKHolidays(year, region, customHolidaysByLocation)])

\* A direct call getHolidayName(date).
GetHolidayName(date) ==
    /\ stepsLeft > 0
    /\ \E r \in {getHolidayName(Env, date)} :
           Step(r.e, [op |-> "getHolidayName", date |-> date, threw |-> r.threw,
                      name |-> r.v])

InitHolidays ==
    /\ \E region \in REGIONS, holidays \in HolidayCustomLists,
          dataset \in DOMAIN HolidayDatasets \cup {NoDataset} :
           /\ dataset = NoDataset \/ isDatasetLocation(region)
           /\ StartsAs(setHolidayDatasetForTests(
                           setTestState(Loaded, BaseYear + 1, region, holidays, {}, "default"),
                           dataset))
    /\ stepsLeft = 1

NextHolidays ==
    \/ \E year \in HolidayYears, region \in REGIONS : GetHolidaysForYear(year, region)
    \/ \E year \in HolidayYears, region \in {"england-wales", "scotland", "northern-ireland"} :
           GetUKHolidays(year, region)
    \/ \E date \in HolidayNameDates : GetHolidayName(date)

SpecHolidays == InitHolidays /\ [][NextHolidays]_vars

(* ---------------- holiday resolution without holiday data -------------- *)

\* The engine after setTestState and setHolidayDatasetForTests for a
\* dataset-backed region, in an environment with or without a document, and
\* two holiday lookups.
InitDegraded ==
    /\ \E year \in Years, region \in {location \in REGIONS : isDatasetLocation(location)},
          holidays \in HolidayCustomLists, dataset \in DOMAIN HolidayDatasets \cup {NoDataset},
          document \in BOOLEAN :
           StartsAs(setHolidayDatasetForTests(
                        setTestState([Loaded EXCEPT !.hasDocument = document],
                                     year, region, holidays, {}, "default"),
                        dataset))
    /\ stepsLeft = 2

NextDegraded ==
    \/ \E year \in Years : GetHolidaysForYear(year, currentRegion)
    \/ \E date \in HolidayNameDates : GetHolidayName(date)

SpecDegraded == InitDegraded /\ [][NextDegraded]_vars

(* ------------- the page opened on a state that is not valid ------------ *)

MaxConfigSteps == 2

\* What localStorage can hold: nothing, a valid state, states with a region or
\* a weekend pattern the program does not know, with an inherited name as
\* weekend pattern, and with an allowance out of range.
ConfigSavedStates ==
    {NoSavedState}
    \cup {[kind |-> "saved", currentAllowance |-> allowance, currentYear |-> BaseYear + 1,
           currentRegion |-> region, currentWeekendPattern |-> weekendPattern,
           bookedDates |-> booked, customHolidaysByLocation |-> EmptyMap] :
             allowance \in {DefaultAllowance},
             region \in {"scotland", "atlantis"},
             weekendPattern \in {"fri-sat", "mon-tue", "constructor"},
             booked \in {{}, {<<BaseYear + 1, 1, 4>>}}}
    \cup {[kind |-> "saved", currentAllowance |-> allowance, currentYear |-> BaseYear + 1,
           currentRegion |-> "england-wales", currentWeekendPattern |-> "sat-sun",
           bookedDates |-> booked, customHolidaysByLocation |-> EmptyMap] :
             allowance \in {-1, 0, 1},
             booked \in {{}, {<<BaseYear + 1, 1, 4>>}}}

\* What the plan parameter of the URL decodes to (decodePlanString keeps the
\* current allowance for one out of range, and null for a weekend pattern
\* with a falsy WEEKEND_PRESETS[pattern]).
ConfigSharedPlans ==
    {NoSavedState}
    \cup {[kind |-> "shared", currentAllowance |-> 1, currentYear |-> BaseYear + 1,
           currentRegion |-> region, currentWeekendPattern |-> weekendPattern,
           bookedDates |-> {}, customHolidaysByLocation |-> EmptyMap] :
             region \in {"qatar", "atlantis"},
             weekendPattern \in {"sat-sun", Null, "constructor"}}

\* The values the selectors and the allowance input deliver.
ConfigLocations == {"scotland", "atlantis"}
ConfigWeekends == {"fri-sat", "mon-tue"}
ConfigAllowances == {-1, 0, 1, AllowanceLimit + 1}

InitConfig ==
    /\ \E savedState \in ConfigSavedStates, decoded \in ConfigSharedPlans :
           StartsAs(initRestored(Loaded, savedState, decoded))
    /\ stepsLeft = MaxConfigSteps

NextConfig ==
    \/ \E value \in ConfigLocations : LocationChange(value)
    \/ \E value \in ConfigWeekends : WeekendChange(value)
    \/ \E val \in ConfigAllowances : AllowanceChange(val)
    \/ ResetTimerFires
    \/ \E data \in {"ds-dated", NoDataset} : DatasetSettles(data)

SpecConfig == InitConfig /\ [][NextConfig]_vars

(* ---------------------- the expander called directly ------------------- *)

\* The numbers of leave days asked for, the ones that are not positive
\* included.
ExpanderLeaveDays == (-1)..2

\* A call calculateContinuousLeaveByIndex(startIdx, leaveDaysToUse,
\* isOffArray, year) as generateAllCandidates prepares it: after
\* ensureDayTypeCache(year), with the isOffArray of that index.
CalculateContinuousLeaveByIndex(year, startIdx, leaveDaysToUse) ==
    /\ stepsLeft > 0
    /\ \E e1 \in {ensureDayTypeCache(Env, year)} :
         \E r \in {calculateContinuousLeaveByIndex(
                       e1, startIdx, leaveDaysToUse,
                       IsOffArray(e1.dayTypeCache, DaysInYear(year)), year)} :
           Step(r.e, [op |-> "calculateContinuousLeaveByIndex", year |-> year,
                      startIdx |-> startIdx, leaveDaysToUse |-> leaveDaysToUse,
                      block |-> r.v])

InitExpander ==
    /\ \E year \in Years, region \in {"england-wales", "qatar"}, holidays \in PlanHolidays,
          dataset \in {NoDataset, "ds-dated"} :
           /\ dataset = NoDataset \/ isDatasetLocation(region)
           /\ StartsAs(setHolidayDatasetForTests(
                           setTestState(Loaded, year, region, holidays, {}, "default"),
                           dataset))
    /\ stepsLeft = 1

NextExpander ==
    \/ \E year \in Years, startIdx \in 0..(YearLen + 1), leaveDaysToUse \in ExpanderLeaveDays :
           /\ startIdx < DaysInYear(year)
           /\ CalculateContinuousLeaveByIndex(year, startIdx, leaveDaysToUse)
    \/ \E year \in Years, startIdx \in 0..(YearLen + 1), leaveDaysToUse \in ExpanderLeaveDays :
           /\ startIdx < DaysInYear(year)
           /\ CalculateContinuousLeave(YearStart(year) + startIdx, leaveDaysToUse, {})

SpecExpander == InitExpander /\ [][NextExpander]_vars

(* ----------------- resets, timers and fetches that end ---------------- *)

\* Number of user events of a behaviour of the page on which resets are
\* requested.
MaxResetSteps == 2

\* What localStorage holds when the page is opened, and what the plan
\* parameter of the URL decodes to.
ResetSavedStates ==
    {NoSavedState,
     [kind |-> "saved", currentAllowance |-> 1, currentYear |-> BaseYear + 1,
      currentRegion |-> "scotland", currentWeekendPattern |-> "constructor",
      bookedDates |-> {}, customHolidaysByLocation |-> EmptyMap]}

ResetSharedPlans ==
    {NoSavedState,
     [kind |-> "shared", currentAllowance |-> 1, currentYear |-> BaseYear + 1,
      currentRegion |-> "qatar", currentWeekendPattern |-> "sat-sun",
      bookedDates |-> {}, customHolidaysByLocation |-> EmptyMap]}

ResetDatasets == {"ds-dated", NoDataset}

InitResets ==
    /\ \E savedState \in ResetSavedStates, decoded \in ResetSharedPlans :
           StartsAs(initRestored(Loaded, savedState, decoded))
    /\ stepsLeft = MaxResetSteps

NextResets ==
    \/ ResetClick
    \/ \E value \in {"england-wales", "qatar"} : LocationChange(value)
    \/ \E dateStr \in ToggleDates : ToggleDate(dateStr)
    \/ ResetTimerFires
    \/ \E data \in ResetDatasets : DatasetSettles(data)

\* The browser runs every timer callback that is due, and a fetch ends, with
\* a response or with an error.
TimersAndFetchesEnd ==
    /\ WF_vars(ResetTimerFires)
    /\ WF_vars(\E data \in ResetDatasets : DatasetSettles(data))

SpecResets == InitResets /\ [][NextResets]_vars /\ TimersAndFetchesEnd

(* ---------------------------- properties ------------------------------ *)

\* The direct classification of a date from the current region, weekend
\* pattern, custom holidays and dataset, with no cache read.
DirectDayType(date) ==
    IF HasDate(ResolveHolidays(getFullYear(date), currentRegion, customHolidaysByLocation,
                               holidayDataset),
               toLocalISOString(date))
    THEN "holiday"
    ELSE IF getDay(date) \in getWeekendPreset(currentWeekendPattern, currentRegion)
    THEN "weekend"
    ELSE "workday"

\* A day off by the direct classification: no workday, or in bookedSet.
DirectOff(date, bookedSet) ==
    DirectDayType(date) # "workday" \/ toLocalISOString(date) \in bookedSet

\* The DayTypeIndex of a year computed afresh.
FreshDayTypes(year) ==
    SubSeq([i \in 1..DaysInYear(year) |-> DirectDayType(YearStart(year) + i - 1)],
           1, DaysInYear(year))

\* The sums of leaveDaysUsed and of totalDaysOff over a list of blocks.
RECURSIVE TotalLeave(_)
TotalLeave(blocks) ==
    IF blocks = << >> THEN 0 ELSE Head(blocks).leaveDaysUsed + TotalLeave(Tail(blocks))

RECURSIVE TotalOff(_)
TotalOff(blocks) ==
    IF blocks = << >> THEN 0 ELSE Head(blocks).totalDaysOff + TotalOff(Tail(blocks))

\* C1: no two blocks of a plan returned by findOptimalPlan share a calendar
\* day: of two distinct blocks one ends before the other starts.
C1_BlocksDoNotOverlap ==
    lastCall.op = "findOptimalPlan" =>
        \A a, b \in 1..Len(lastCall.blocks) :
            a # b => \/ lastCall.blocks[a].endDate < lastCall.blocks[b].startDate
                     \/ lastCall.blocks[b].endDate < lastCall.blocks[a].startDate

\* A plan of several blocks has been returned.
C1_Witness ==
    /\ lastCall.op = "findOptimalPlan"
    /\ Len(lastCall.blocks) >= 2

\* C2: the leaveDaysUsed of the blocks of a plan returned by findOptimalPlan
\* sum to at most the allowance, for every year and every allowance of the
\* engine's domain (a positive number).
C2_LeaveWithinAllowance ==
    lastCall.op = "findOptimalPlan" /\ lastCall.allowance > 0 =>
        TotalLeave(lastCall.blocks) <= lastCall.allowance

\* A plan has been returned that uses the whole allowance with several blocks.
C2_Witness ==
    /\ lastCall.op = "findOptimalPlan"
    /\ lastCall.allowance > 1
    /\ Len(lastCall.blocks) >= 2
    /\ TotalLeave(lastCall.blocks) = lastCall.allowance

\* The sets of one, two or three candidates of a pool (by their positions)
\* that do not overlap and whose leaveDaysUsed sum to at most the allowance.
FeasibleSets(pool, allowance) ==
    {S \in SUBSET (1..Len(pool)) :
        /\ Cardinality(S) \in 1..3
        /\ \A a, b \in S : a # b => \/ pool[a].endIdx < pool[b].startIdx
                                    \/ pool[b].endIdx < pool[a].startIdx
        /\ TotalLeave(SubSeq([k \in 1..Cardinality(S) |-> pool[Ascending(S)[k]]],
                             1, Cardinality(S))) <= allowance}

\* C3: the blocks the combination solver returns have the largest sum of
\* totalDaysOff among all sets of one, two or three candidates of the pool
\* that do not overlap and fit the allowance.
C3_SolverMaximisesDaysOff ==
    lastCall.op = "findBestCombination" /\ ~lastCall.threw =>
        \A S \in FeasibleSets(lastCall.candidates, lastCall.allowance) :
            TotalOff(SubSeq([k \in 1..Cardinality(S) |->
                                lastCall.candidates[Ascending(S)[k]]],
                            1, Cardinality(S)))
                <= TotalOff(lastCall.combo)

\* C4: a plan returned by findOptimalPlan has at most three blocks.
C4_AtMostThreeBlocks ==
    lastCall.op = "findOptimalPlan" => Len(lastCall.blocks) <= 3

\* A plan of three blocks has been returned though the pool holds a fourth
\* candidate that overlaps none of the three.
C4_Witness ==
    /\ lastCall.op = "findOptimalPlan"
    /\ Len(lastCall.blocks) = 3
    /\ \E n \in 1..Len(lastCall.pool) :
           \A b \in 1..Len(lastCall.blocks) :
               \/ YearStart(lastCall.year) + lastCall.pool[n].endIdx
                      < lastCall.blocks[b].startDate
               \/ lastCall.blocks[b].endDate
                      < YearStart(lastCall.year) + lastCall.pool[n].startIdx

\* C5: two plans computed for the same year, allowance, region, weekend
\* pattern, custom holidays and dataset are the same ordered block list,
\* whatever was computed before or between them.
C5_SameInputsSamePlan ==
    \A p, q \in planLog :
        /\ p.year = q.year /\ p.allowance = q.allowance /\ p.region = q.region
        /\ p.weekend = q.weekend /\ p.customs = q.customs /\ p.dataset = q.dataset
        => p.blocks = q.blocks

\* C6: findBestCombination returns the empty list and raises no error when
\* the allowance is 0 or less, when the pool is empty, and when no candidate
\* fits the allowance.
C6_EmptyPlanWithoutError ==
    /\ lastCall.op = "findBestCombination"
    /\ \/ lastCall.allowance <= 0
       \/ Len(lastCall.candidates) = 0
       \/ \A n \in 1..Len(lastCall.candidates) :
              lastCall.candidates[n].leaveDaysUsed > lastCall.allowance
    => ~lastCall.threw /\ lastCall.combo = << >>

\* The solver has been given a pool and a positive allowance that no
\* candidate of the pool fits.
C6_Witness ==
    /\ lastCall.op = "findBestCombination"
    /\ lastCall.allowance > 0
    /\ Len(lastCall.candidates) > 0
    /\ \A n \in 1..Len(lastCall.candidates) :
           lastCall.candidates[n].leaveDaysUsed > lastCall.allowance
    /\ lastCall.combo = << >>

\* The dates of a list of dates.
DatesOf(dates) == {dates[n] : n \in 1..Len(dates)}

\* C7: a block of the expander for N >= 1 leave days is a maximal run of off
\* days.  Of calculateContinuousLeave: every day of [startDate, endDate] is a
\* weekend day, a holiday, a day of the booked set or one of the N workdays
\* consumed, and the day before startDate and the day after endDate are
\* workdays neither booked nor consumed.  Of calculateContinuousLeaveByIndex
\* (the candidates of a plan, no booked set): the days of the range that are
\* workdays are N, and the days before and after the range are workdays.
C7_BlockIsMaximalRun ==
    /\ lastCall.op = "calculateContinuousLeave" /\ lastCall.leaveDaysToUse >= 1
       => /\ lastCall.block # NoBlock
          /\ Len(lastCall.block.bookedDates) = lastCall.leaveDaysToUse
          /\ \A d \in lastCall.block.startDate..lastCall.block.endDate :
                 \/ DirectOff(d, lastCall.bookedSet)
                 \/ d \in DatesOf(lastCall.block.bookedDates)
          /\ \A d \in {lastCall.block.startDate - 1, lastCall.block.endDate + 1} :
                 /\ ~DirectOff(d, lastCall.bookedSet)
                 /\ d \notin DatesOf(lastCall.block.bookedDates)
    /\ lastCall.op = "findOptimalPlan"
       => \A n \in 1..Len(lastCall.candidates) :
              /\ Cardinality({i \in lastCall.candidates[n].startIdx..
                                    lastCall.candidates[n].endIdx :
                                 ~DirectOff(YearStart(lastCall.year) + i, {})})
                     = lastCall.candidates[n].leaveDaysUsed
              /\ ~DirectOff(YearStart(lastCall.year) + lastCall.candidates[n].startIdx - 1, {})
              /\ ~DirectOff(YearStart(lastCall.year) + lastCall.candidates[n].endIdx + 1, {})

\* calculateContinuousLeave has returned a block that the booked set, a
\* weekend and a holiday make longer than the leave days it consumes.
C7_Witness ==
    /\ lastCall.op = "calculateContinuousLeave"
    /\ lastCall.leaveDaysToUse = 2
    /\ lastCall.block # NoBlock
    /\ \E d \in lastCall.block.startDate..lastCall.block.endDate :
           toLocalISOString(d) \in lastCall.bookedSet /\ DirectDayType(d) = "workday"
    /\ \E d \in lastCall.block.startDate..lastCall.block.endDate :
           DirectDayType(d) = "holiday"
    /\ \E d \in lastCall.block.startDate..lastCall.block.endDate :
           DirectDayType(d) = "weekend"

\* C8: every block of a plan returned by findOptimalPlan lists in bookedDates
\* the workdays it consumes: leaveDaysUsed entries, in ascending order, each
\* a workday of [startDate, endDate], also when the range goes beyond 31
\* December of the year.
C8_BookedDatesAreConsumedWorkdays ==
    lastCall.op = "findOptimalPlan" =>
        \A n \in 1..Len(lastCall.blocks) :
            /\ Len(lastCall.blocks[n].bookedDates) = lastCall.blocks[n].leaveDaysUsed
            /\ \A i \in 1..(Len(lastCall.blocks[n].bookedDates) - 1) :
                   lastCall.blocks[n].bookedDates[i] < lastCall.blocks[n].bookedDates[i + 1]
            /\ \A i \in 1..Len(lastCall.blocks[n].bookedDates) :
                   /\ lastCall.blocks[n].bookedDates[i] >= lastCall.blocks[n].startDate
                   /\ lastCall.blocks[n].bookedDates[i] <= lastCall.blocks[n].endDate
                   /\ DirectDayType(lastCall.blocks[n].bookedDates[i]) = "workday"

\* The dates that getDayType is compared on: days of both years of the
\* selector, of the year before and of the year after.
TypedDates ==
    {DateOf(BaseYear, 12, 30), DateOf(BaseYear + 1, 1, 1), DateOf(BaseYear + 1, 1, 3),
     DateOf(BaseYear + 1, 1, 4), DateOf(BaseYear + 1, 12, 30), DateOf(BaseYear + 2, 1, 2),
     DateOf(BaseYear + 2, 12, 29), DateOf(BaseYear + 3, 1, 1)}

\* C9: in every state getDayType(date) returns the direct classification of
\* the date, whatever the DayTypeIndex holds: nothing, the index of the
\* date's year or the index of another year.
C9_DayTypeIsDirectClassification ==
    \A date \in TypedDates : getDayType(Env, date).v = DirectDayType(date)

\* getDayType has been called for a date that is no workday while the
\* DayTypeIndex held another year.
C9_Witness ==
    /\ lastCall.op = "getDayType"
    /\ lastCall.indexYear # 0
    /\ lastCall.indexYear # getFullYear(lastCall.date)
    /\ lastCall.type # "workday"

Scratch(e) == invalidateInsightCaches(holidaysCacheClear(e))

\* The days dayInsight is compared on.
InsightDays ==
    {DateOf(BaseYear + 1, 1, 2), DateOf(BaseYear + 1, 1, 3), DateOf(BaseYear + 1, 1, 5),
     DateOf(BaseYear + 1, 12, 31), DateOf(BaseYear + 2, 1, 2), DateOf(BaseYear + 2, 1, 7)}

\* C11: after any sequence of changes of the booked set (a day toggled, a
\* reset to optimal, a saved or shared plan applied) getDayInsight returns for
\* every day what it computes from scratch from the current booked set: no
\* stale booked-day bitset and no stale insight memo is read.
C11_InsightFollowsBookedSet ==
    \A date \in InsightDays :
        getDayInsight(Env, date).v = getDayInsight(Scratch(Env), date).v

\* A booking next to a workday has been removed, and the bridge flag of the
\* workday, true in the memo before, is false in the memo now.
C11_Witness ==
    /\ lastCall.op = "toggleDate"
    /\ lastCall.wasBooked
    /\ \E date \in InsightDays :
           /\ toLocalISOString(date + 1) = lastCall.dateStr
           /\ DayInsightKey(Env, date) \in DOMAIN lastCall.insightsBefore
           /\ lastCall.insightsBefore[DayInsightKey(Env, date)].bridge
           /\ DayInsightKey(Env, date) \in DOMAIN dayInsightCache
           /\ ~dayInsightCache[DayInsightKey(Env, date)].bridge

\* The date strings of the bookedDates of the blocks of a plan.
PlanDates(blocks) ==
    {toLocalISOString(d) : d \in UNION {DatesOf(blocks[n].bookedDates) : n \in 1..Len(blocks)}}

\* C12: the booked set is changed by a click on a day and, of the engine, by
\* a reset to optimal only; a reset that completes replaces it by the
\* bookedDates of the blocks of the plan it has computed, and no earlier
\* booking stays; a plan computation, a day insight, a day type and a year
\* comparison leave it as it is.
C12_OnlyResetReplacesBookedSet ==
    [][/\ bookedDates' # bookedDates => lastCall'.op \in {"resetTimer", "toggleDate"}
       /\ resetTimers' < resetTimers /\ ~lastCall'.threw
              => bookedDates' = PlanDates(lastCall'.blocks)
       /\ stepsLeft' < stepsLeft
          /\ lastCall'.op \in {"findOptimalPlan", "getDayInsight", "getDayType",
                               "getYearComparison"}
              => bookedDates' = bookedDates]_vars

\* A reset has completed on a page with bookings, and a booking of before is
\* not in the booked set any more.
C12_Witness ==
    /\ lastCall.op = "resetTimer"
    /\ ~lastCall.threw
    /\ bookedDates # {}
    /\ lastCall.bookedBefore \ bookedDates # {}

\* C13: the plan computation of a reset and the replacement of the booked
\* set are one step.  In the state a reset leaves, the booked set is the
\* whole plan of the year and the allowance that are current in that state,
\* computed under the region, weekend pattern, custom holidays and dataset
\* of that state: no partial plan, and no plan of inputs that an event has
\* changed since.
C13_ResetIsAtomic ==
    lastCall.op = "resetTimer" /\ ~lastCall.threw =>
        /\ lastCall.year = currentYear
        /\ lastCall.allowance = currentAllowance
        /\ bookedDates
               = PlanDates(findOptimalPlan(Scratch(Env), currentYear, currentAllowance).v)

\* A reset has completed after the region was changed while an earlier reset
\* was pending, and another reset is still to come; the plan has several
\* blocks.
C13_Witness ==
    /\ lastCall.op = "resetTimer"
    /\ ~lastCall.threw
    /\ currentRegion = "scotland"
    /\ resetTimers > 0
    /\ Len(lastCall.blocks) >= 2

\* No reset is pending and no dataset is being fetched.
Quiescent == resetTimers = 0 /\ resetsAwaiting = 0 /\ holidayDatasetPromise # "pending"

\* C14: after a change of the year, the region, the weekend pattern, the
\* allowance or the holiday set (a custom holiday added or removed, a dataset
\* loaded that has holidays of the current region and year) the plan is
\* recomputed: the change leaves a reset pending, and when the pending
\* resets have completed the booked set is the booked days of the plan of
\* the inputs there are.
C14_PlanRecomputedOnInputChange ==
    /\ \/ lastCall.op \in {"yearChange", "locationChange", "removeCustomHoliday"}
       \/ lastCall.op = "weekendChange" /\ lastCall.value \in DOMAIN WEEKEND_PRESETS
       \/ lastCall.op = "allowanceChange" /\ lastCall.val > 0 /\ lastCall.val <= AllowanceLimit
       \/ lastCall.op = "addCustomHoliday" /\ lastCall.added
       \/ /\ lastCall.op = "datasetSettles"
          /\ hasHolidayDataForYear(currentRegion, currentYear, lastCall.data)
       => resetTimers + resetsAwaiting > 0
    /\ lastCall.op = "resetTimer" /\ ~lastCall.threw /\ Quiescent
       => bookedDates
              = PlanDates(findOptimalPlan(Scratch(Env), currentYear, currentAllowance).v)

\* C15: for every workday and every booked set the bridge flag of
\* getDayInsight is true exactly when the day before and the day after are
\* both off (a weekend day, a holiday or a booked day), also when one of the
\* two lies in the year before or after.
C15_BridgeIffBothNeighboursOff ==
    \A date \in BridgeDays :
        DirectDayType(date) = "workday" =>
            getDayInsight(Env, date).v.bridge
                = (DirectOff(date - 1, bookedDates) /\ DirectOff(date + 1, bookedDates))

\* getDayInsight has found a bridge at a workday whose next day lies in the
\* following year.
C15_Witness ==
    /\ lastCall.op = "getDayInsight"
    /\ DirectDayType(lastCall.date) = "workday"
    /\ getFullYear(lastCall.date + 1) # getFullYear(lastCall.date)
    /\ toLocalISOString(lastCall.date - 1) \in bookedDates
    /\ lastCall.insight.bridge

(* ------------------------- holiday resolution -------------------------- *)

\* The UK regions, whose holidays are computed by rule.
UKRegions == {region \in REGIONS : ~isDatasetLocation(region)}

\* A holiday list has been resolved for a UK region.
UKListResolved ==
    /\ lastCall.op \in {"getHolidaysForYear", "getUKHolidays"}
    /\ lastCall.region \in UKRegions

\* The entries of a list, as a set.
Entries(holidays) == {holidays[i] : i \in 1..Len(holidays)}

\* The Christmas and Boxing Day entries the coupled rule prescribes, by the
\* weekday of 25 December.
CoupledRule(year) ==
    Only({CASE weekday = 6 ->
                 {[date |-> <<year, 12, 27>>, name |-> "Christmas Day (Substitute)"],
                  [date |-> <<year, 12, 28>>, name |-> "Boxing Day (Substitute)"]}
            [] weekday = 0 ->
                 {[date |-> <<year, 12, 27>>, name |-> "Christmas Day (Substitute)"],
                  [date |-> <<year, 12, 26>>, name |-> "Boxing Day"]}
            [] weekday = 5 ->
                 {[date |-> <<year, 12, 25>>, name |-> "Christmas Day"],
                  [date |-> <<year, 12, 28>>, name |-> "Boxing Day (Substitute)"]}
            [] OTHER ->
                 {[date |-> <<year, 12, 25>>, name |-> "Christmas Day"],
                  [date |-> <<year, 12, 26>>, name |-> "Boxing Day"]} :
             weekday \in {(YearStart(year + 1) - 7) % 7}})

\* C16: in every year the Christmas Day and Boxing Day entries of a UK list
\* are the ones of the coupled rule: 27 and 28 December when the 25th is a
\* Saturday, 27 and 26 December when it is a Sunday, 25 and 28 December when
\* the 26th is a Saturday, the nominal dates otherwise.
C16_ChristmasCoupledRule ==
    UKListResolved =>
        {h \in Entries(lastCall.holidays) :
              h.name \in {"Christmas Day", "Christmas Day (Substitute)",
                          "Boxing Day", "Boxing Day (Substitute)"}}
          = CoupledRule(lastCall.year)

C16_Witness ==
    /\ UKListResolved
    /\ getDay(DateOf(lastCall.year, 12, 25)) = 6
    /\ [date |-> <<lastCall.year, 12, 27>>, name |-> "Christmas Day (Substitute)"]
           \in Entries(lastCall.holidays)
    /\ [date |-> <<lastCall.year, 12, 28>>, name |-> "Boxing Day (Substitute)"]
           \in Entries(lastCall.holidays)

\* A holiday list has been resolved, for any region.
ListResolved == lastCall.op \in {"getHolidaysForYear", "getUKHolidays"}

\* The dates of the entries of a list that carry one of the names.
DatesNamed(holidays, names) == {h.date : h \in {x \in Entries(holidays) : x.name \in names}}

RegionalHolidays(year, region) == ResolveHolidays(year, region, EmptyMap, holidayDataset)

\* The custom holidays of a region whose date is the date of a regional
\* holiday of the year.
CollidingCustoms(year, region) ==
    {c \in Entries(getCustomHolidaysForLocation(customHolidaysByLocation, region)) :
        HasDate(RegionalHolidays(year, region), c.date)}

\* C18: a custom holiday on the date of a regional holiday (rule-based or from
\* the dataset) neither replaces, renames nor duplicates that entry: the
\* resolved list holds the regional entry alone on that date, and the lookup
\* of the date returns the regional holiday.
C18_CustomNeverOverridesRegional ==
    /\ lastCall.op = "getHolidaysForYear" =>
           \A c \in CollidingCustoms(lastCall.year, lastCall.region) :
               /\ {h \in Entries(lastCall.holidays) : h.date = c.date}
                    = {h \in Entries(RegionalHolidays(lastCall.year, lastCall.region)) :
                           h.date = c.date}
               /\ Cardinality({i \in 1..Len(lastCall.holidays) :
                                   lastCall.holidays[i].date = c.date}) = 1
               /\ LookupGet(lastCall.holidays, c.date) # c.name
    /\ lastCall.op = "getHolidayName" =>
           \A c \in CollidingCustoms(getFullYear(lastCall.date), currentRegion) :
               c.date = toLocalISOString(lastCall.date) =>
                   lastCall.name = LookupGet(RegionalHolidays(getFullYear(lastCall.date),
                                                              currentRegion), c.date)

C18_Witness ==
    /\ lastCall.op = "getHolidayName"
    /\ \E c \in CollidingCustoms(getFullYear(lastCall.date), currentRegion) :
           /\ c.date = toLocalISOString(lastCall.date)
           /\ lastCall.name # c.name
    /\ lastCall.name \in {"Christmas Day", "Sports Day"}

\* a.localeCompare(b) <= 0 for two YYYY-MM-DD strings.
NotAfter(a, b) ==
    \/ a[1] < b[1]
    \/ a[1] = b[1] /\ a[2] < b[2]
    \/ a[1] = b[1] /\ a[2] = b[2] /\ a[3] <= b[3]

\* C19: the holiday list resolved for a year and a region is sorted by
\* ascending date, also after the custom holidays have been merged into it.
C19_ListSortedByDate ==
    ListResolved =>
        \A i, j \in 1..Len(lastCall.holidays) :
            i < j => NotAfter(lastCall.holidays[i].date, lastCall.holidays[j].date)

(* ------------------------- missing holiday data ------------------------ *)

\* The custom holidays of a region, each date once: what the merge into an
\* empty list leaves.
CustomsOnly(region) ==
    MergeCustomHolidays(<< >>, getCustomHolidaysForLocation(customHolidaysByLocation, region))

\* A holiday lookup has been made for a dataset-backed region and a year for
\* which no holiday data is loaded.
DegradedLookup ==
    \/ /\ lastCall.op = "getHolidaysForYear"
       /\ isDatasetLocation(lastCall.region)
       /\ ~hasHolidayDataForYear(lastCall.region, lastCall.year, holidayDataset)
    \/ /\ lastCall.op = "getHolidayName"
       /\ isDatasetLocation(currentRegion)
       /\ ~hasHolidayDataForYear(currentRegion, getFullYear(lastCall.date), holidayDataset)

\* C20: for a dataset-backed region with no dataset loaded, or with no entries
\* for the requested year, holiday resolution and the holiday lookup of a day
\* never throw; the resolved list is the list of the custom holidays, and the
\* name of a day is the one of its custom holiday, if any.
C20_DegradedNeverThrows ==
    DegradedLookup =>
        /\ ~lastCall.threw
        /\ lastCall.op = "getHolidaysForYear" => lastCall.holidays = CustomsOnly(lastCall.region)
        /\ lastCall.op = "getHolidayName" =>
               lastCall.name = LookupGet(CustomsOnly(currentRegion),
                                         toLocalISOString(lastCall.date))

\* The same in an environment that has a document.
WithDocumentNeverThrows == hasDocument => C20_DegradedNeverThrows

(* ------------------------ configuration and input ---------------------- *)

\* C21: an unknown region identifier or weekend-pattern key, from the
\* selectors, a shared link or the saved state, never halts the engine: after
\* any sequence of operations the current region is a supported region and
\* the current weekend pattern is a known preset, and a plan computed for an
\* allowance in range does not end in an exception.
C21_ConfigurationAlwaysKnown ==
    /\ currentRegion \in REGIONS
    /\ currentWeekendPattern \in DOMAIN WEEKEND_PRESETS
    /\ lastCall.op = "resetTimer" /\ lastCall.allowance \in 1..AllowanceLimit
           => ~lastCall.threw

\* C22: after any sequence of operations (start-up from a saved state, a
\* shared link, changes of the allowance input) the allowance is an integer
\* between 1 and 365, and so is the allowance of every plan the reset timer
\* computes: a value out of range leaves the previous allowance in place.
C22_AllowanceInRange ==
    /\ currentAllowance \in 1..AllowanceLimit
    /\ lastCall.op = "resetTimer" => lastCall.allowance \in 1..AllowanceLimit

\* The allowance input alone: a value out of range leaves the allowance as it
\* was.
AllowanceInputRejects ==
    [][\A val \in ConfigAllowances :
           AllowanceChange(val) /\ val \notin 1..AllowanceLimit
               => currentAllowance' = currentAllowance]_vars

(* ------------------------------ the expander --------------------------- *)

DateFormNoResultForNoLeave ==
    lastCall.op = "calculateContinuousLeave" /\ lastCall.leaveDaysToUse <= 0
        => lastCall.block = NoBlock

(* ------------------------------- the solver ---------------------------- *)

\* The pool of a solver call as the solver sorts it.
SortedPool == StableSort(lastCall.candidates, "start")

\* The smallest index j > i whose candidate starts strictly after candidate
\* i ends, N when there is none (indices from 0).
FirstStartingAfter(sorted, i) ==
    IF \E j \in (i + 1)..(Len(sorted) - 1) : sorted[j + 1].startIdx > sorted[i + 1].endIdx
    THEN Least({j \in (i + 1)..(Len(sorted) - 1) :
                   sorted[j + 1].startIdx > sorted[i + 1].endIdx})
    ELSE Len(sorted)

SolverRan ==
    /\ lastCall.op = "findBestCombination"
    /\ ~NothingToSolve(lastCall.candidates, lastCall.allowance)

\* C24: for every candidate i of the start-sorted pool, nextCompatible[i] is
\* the smallest index j > i whose candidate starts strictly after candidate
\* i ends (N when there is none), for every pool, also one in which a
\* later-starting candidate ends before an earlier-starting one does.
C24_NextCompatibleIsFirstAfter ==
    SolverRan =>
        \A i \in 0..(Len(SortedPool) - 1) :
            NextCompatible(SortedPool)[i + 1] = FirstStartingAfter(SortedPool, i)

\* The sorted pool has a candidate that ends before one sorted ahead of it.
PoolNested(sorted) ==
    \E i, j \in 1..Len(sorted) : i < j /\ sorted[j].endIdx < sorted[i].endIdx

\* The same for the pools whose candidates end in the order they start.
NextCompatibleOnOrderedPools ==
    SolverRan /\ ~PoolNested(SortedPool) =>
        \A i \in 0..(Len(SortedPool) - 1) :
            NextCompatible(SortedPool)[i + 1] = FirstStartingAfter(SortedPool, i)

\* The candidates of a pool at the positions S, in the pool's order.
Chosen(pool, S) ==
    SubSeq([k \in 1..Cardinality(S) |-> pool[Ascending(S)[k]]], 1, Cardinality(S))

\* The feasible sets of a solver call, and those of k candidates.
FeasibleNow == FeasibleSets(lastCall.candidates, lastCall.allowance)
FeasibleOf(k) == {S \in FeasibleNow : Cardinality(S) = k}

\* The score of combination a is not below that of combination b.
ScoreNotBelow(a, b) ==
    ~ScoreGreater(TotalOff(b), TotalLeave(b), TotalOff(a), TotalLeave(a))

\* The combination returned has k blocks and the best score of the feasible
\* sets of k candidates.
BestOfCount(k) ==
    /\ Len(lastCall.combo) = k
    /\ \A S \in FeasibleOf(k) : ScoreNotBelow(lastCall.combo, Chosen(lastCall.candidates, S))

\* C26: the solver returns a combination with the largest block count k in
\* {3, 2, 1} for which a feasible combination exists, and within that k one
\* with the best score; a block count is passed over only when no combination
\* with that count is feasible.
C26_LargestFeasibleCountBestScore ==
    SolverRan /\ ~lastCall.threw =>
        /\ FeasibleOf(3) # {} => BestOfCount(3)
        /\ FeasibleOf(3) = {} /\ FeasibleOf(2) # {} => BestOfCount(2)
        /\ FeasibleOf(3) = {} /\ FeasibleOf(2) = {} /\ FeasibleOf(1) # {} => BestOfCount(1)

\* The same for the pools whose candidates end in the order they start.
LargestCountOnOrderedPools ==
    SolverRan /\ ~lastCall.threw /\ ~PoolNested(SortedPool) =>
        /\ FeasibleOf(3) # {} => BestOfCount(3)
        /\ FeasibleOf(3) = {} /\ FeasibleOf(2) # {} => BestOfCount(2)
        /\ FeasibleOf(3) = {} /\ FeasibleOf(2) = {} /\ FeasibleOf(1) # {} => BestOfCount(1)

\* What the three nested loops find in the pool of a solver call.
BruteForceNow == BruteForceCombination(lastCall.candidates, lastCall.allowance)

\* Two combinations have the same score.
SameScore(a, b) == ~getScoreGreater(a, b) /\ ~getScoreGreater(b, a)

\* C25: for every pool and allowance for which a feasible combination of two
\* or three blocks exists, the combination the dynamic-programming solver
\* returns has the same block count and the same score as the best
\* combination of the brute-force triple-nested search over the same pool.
C25_SolverMatchesBruteForce ==
    SolverRan /\ ~lastCall.threw /\ (FeasibleOf(2) # {} \/ FeasibleOf(3) # {}) =>
        /\ Len(lastCall.combo) = Len(BruteForceNow)
        /\ SameScore(lastCall.combo, BruteForceNow)

\* The same for the pools whose candidates end in the order they start.
MatchesBruteForceOnOrderedPools ==
    /\ SolverRan /\ ~lastCall.threw /\ (FeasibleOf(2) # {} \/ FeasibleOf(3) # {})
    /\ ~PoolNested(SortedPool)
    => /\ Len(lastCall.combo) = Len(BruteForceNow)
       /\ SameScore(lastCall.combo, BruteForceNow)

\* The date-based expander started on the calendar day of the last
\* index-based call, with no booked set.
DateBasedBlock ==
    calculateContinuousLeave(Env, YearStart(lastCall.year) + lastCall.startIdx,
                             lastCall.leaveDaysToUse, {}).v

IndexBasedCall ==
    lastCall.op = "calculateContinuousLeaveByIndex" /\ lastCall.leaveDaysToUse >= 1

\* C27: for every year, every workday offset i of that year and every
\* N >= 1, the index-based expander returns the same first day, last day and
\* totalDaysOff as the date-based expander started on the same calendar day
\* with no booked set, also when consuming or expanding reaches before
\* 1 January or beyond 31 December of the indexed year.
C27_IndexFormMatchesDateForm ==
    IndexBasedCall =>
        /\ DateBasedBlock # NoBlock
        /\ DateBasedBlock.startDate = YearStart(lastCall.year) + lastCall.block.startIdx
        /\ DateBasedBlock.endDate = YearStart(lastCall.year) + lastCall.block.endIdx
        /\ DateBasedBlock.totalDaysOff = lastCall.block.totalDaysOff

\* An index-based block that begins before 1 January and one that ends after
\* 31 December of the indexed year, the year not being the selected one.
C27_Witness ==
    /\ IndexBasedCall
    /\ lastCall.year # currentYear
    /\ lastCall.block.endIdx >= DaysInYear(lastCall.year)
    /\ lastCall.block.totalDaysOff >= 4
    /\ DateBasedBlock.endDate = YearStart(lastCall.year) + lastCall.block.endIdx

IndexBlockBeforeJanuary ==
    IndexBasedCall /\ lastCall.block.startIdx < 0

(* ----------------------- the index a plan is read from ----------------- *)

\* C28: while findOptimalPlan(year, allowance) runs, the day-type index it
\* reads is the one built for that year: classifying a boundary day of an
\* adjacent year during candidate generation never replaces the index before
\* the bookedDates of the blocks have been derived from it.  (The loop that
\* derives bookedDates changes no cache, so the index it read is the one
\* held when the call returns.)
C28_PlanReadsIndexOfItsYear ==
    lastCall.op = "findOptimalPlan" /\ ~lastCall.threw => dayTypeCacheYear = lastCall.year

\* The same for the plans of the selected year.
PlanOfSelectedYearReadsItsIndex ==
    lastCall.op = "findOptimalPlan" /\ ~lastCall.threw /\ lastCall.year = currentYear
        => dayTypeCacheYear = lastCall.year

(* ------------------------- toggles and pending resets ------------------ *)

\* C29: a day toggled by the user is never silently undone: the booked set
\* keeps the change until the user's next setting change or reset request; a
\* reset requested before the toggle that fires after it does not overwrite
\* the toggle.  (After a toggle, a timer that fires or a dataset fetch that
\* ends is no event of the user; a timer pending then was set before it.)
C29_ToggleNeverUndone ==
    [][lastCall.op = "toggleDate" /\ lastCall'.op \in {"resetTimer", "datasetSettles"}
           => (lastCall.dateStr \in bookedDates' <=> lastCall.dateStr \in bookedDates)]_vars


(* ---------------------------- resets complete -------------------------- *)

\* C30: every reset-to-optimal request eventually completes: the booked set
\* is replaced by the plan for the settings current at that moment and the
\* loading indicator is hidden, also when the dataset fetch fails or returns
\* no data, and when several resets and dataset loads are pending at once.
\* (Stated on the callback that has run: it has replaced the booked set by
\* the plan of the current settings and hidden the overlay.)
C30_ResetCompletes ==
    lastCall.op = "resetTimer" =>
        /\ ~lastCall.threw
        /\ ~loadingShown
        /\ lastCall.year = currentYear /\ lastCall.allowance = currentAllowance
        /\ bookedDates = BookedDatesOfPlan(lastCall.blocks)

\* The same on the pages whose weekend pattern is a preset.
ResetCompletesOnKnownPattern ==
    currentWeekendPattern \in DOMAIN WEEKEND_PRESETS => C30_ResetCompletes

\* A reset that awaits the dataset is never left without a fetch that will
\* end, and a callback takes exactly one reset off the pending ones.
AwaitingHasPendingFetch == resetsAwaiting > 0 => holidayDatasetPromise = "pending"

CallbackTakesOneReset ==
    [][lastCall'.op = "resetTimer" /\ lastCall' # lastCall
           => resetTimers' = resetTimers - 1 /\ resetsAwaiting' = resetsAwaiting]_vars

\* The callback hides the overlay also when the plan ends in an exception.
CallbackHidesLoading == lastCall.op = "resetTimer" => ~loadingShown

=============================================================================
